---- MODULE Spec2Model ----
(***************************************************************************)
(* Model of the backend of the screenplay rating service:                  *)
(*   - the script-version store (services/version_service.py),             *)
(*   - the rating job queue (services/queue.py, worker.py),                *)
(*   - rating completion (services/script_service.py),                     *)
(*   - the ML service client's retry loop (services/ml_client.py).         *)
(* Each subsystem has its own specification over its own variables; the    *)
(* variables of the other subsystems stay at their initial values.         *)
(***************************************************************************)
EXTENDS FiniteSets, Integers, Naturals, Sequences, TLC

VARIABLES script, versions, nextId, assigned, lastOp, restorePc

\* rating: the queue's jobs and the synchronous requests (tasks), the
\* scenes and rating_logs tables, and the completions in commit order
VARIABLES tasks, scenes, rating_logs, committed, lastEnqueue

\* the state of one MLServiceClient.rate_script call
VARIABLES client

\* the rating mapper: the aggregated score vector, the mapper's answer for
\* it and what it answered for the vector the scores were raised from
VARIABLES agg, rated, lower

\* the score normalizer: what the patterns matched in a scene, the feature
\* vector and the normalized scores
VARIABLES scene_counts, features, normalized

\* the structured what-if engine: one request to analyze_structured and
\* its response
VARIABLES request, response

\* one call of SceneRemovalStrategy.apply: its arguments and what it returns
VARIABLES removal

\* one call of CharacterFocusedStrategy.apply or ContentReductionStrategy.apply:
\* its arguments and what it returns
VARIABLES strategy_call

\* one call of a step of RatingAdvisor: its arguments and what it returns
VARIABLES advisor_call

\* the create_version calls in progress, each on a database session of its
\* own: where the call is and what its session has loaded
VARIABLES sessions

vars_versions == <<script, versions, nextId, assigned, lastOp, restorePc>>

vars_rating == <<tasks, scenes, rating_logs, committed, lastEnqueue>>

vars_whatif == <<request, response, removal>>

vars_strategy == <<strategy_call>>

vars_advisor == <<advisor_call>>

vars_sessions == <<sessions>>

vars_pipeline == <<agg, rated, lower, scene_counts, features, normalized>>

vars == <<script, versions, nextId, assigned, lastOp, restorePc,
          tasks, scenes, rating_logs, committed, lastEnqueue,
          client,
          agg, rated, lower, scene_counts, features, normalized,
          request, response, removal,
          strategy_call,
          advisor_call,
          sessions>>

(***************************************************************************)
(* Bounds                                                                  *)
(***************************************************************************)
\* number of script_versions rows the model lets the database insert
MaxRows == 4

\* number of rating requests (queued jobs and synchronous ratings)
MaxTasks == 3

\* largest value of the setting ml_service_max_retries
MaxRetries == 4

\* largest number of matches of one pattern list in a scene
MaxCount == 6

\* largest number of tokens of a script text
MaxTextLen == 6

\* largest number of modifications of a what-if request
MaxMods == 2

\* largest number of scenes given to the scene-removal strategy
MaxScenes == 3

(***************************************************************************)
(* Values                                                                  *)
(***************************************************************************)
\* Python's None
None == "None"

\* the id of the one stored script, and an id no script has
ScriptId == 1
ScriptIds == {1, 2}

\* values predicted_rating takes (agg_scores and total_scenes are written
\* and copied together with it everywhere, so one field stands for them)
Ratings == {"6+", "16+"}

\* change_description of a version: free text of the caller, or the text
\* "Backup before restore to v<n>" that restore_version generates
ManualDescription == [kind |-> "manual", target |-> 0]
BackupDescription(n) == [kind |-> "backup", target |-> n]

(***************************************************************************)
(* Version store: queries                                                  *)
(***************************************************************************)
Nums(vs) == {v.version_number : v \in vs}

Ids(vs) == {v.id : v \in vs}

Max(S) == CHOOSE m \in S : \A x \in S : x <= m

\* Result.scalar_one_or_none(): None for no row, the row for one row, and
\* the exception MultipleResultsFound for more than one row
scalar_one_or_none(rows) ==
    IF rows = {} THEN [tag |-> "none", row |-> None]
    ELSE IF Cardinality(rows) = 1
         THEN [tag |-> "one", row |-> CHOOSE r \in rows : TRUE]
         ELSE [tag |-> "MultipleResultsFound", row |-> None]

\* select(Script).where(Script.id == script_id) ... scalar_one_or_none()
get_script_row(s, script_id) ==
    scalar_one_or_none({x \in {s} : x.id = script_id})

\* VersionService.get_version
get_version(vs, script_id, version_number) ==
    scalar_one_or_none({v \in vs : v.script_id = script_id
                                   /\ v.version_number = version_number})

\* the rows of create_version's first query on script_versions: every
\* version of the script (the ORDER BY does not limit the result)
versions_of(vs, script_id) == {v \in vs : v.script_id = script_id}

\* new_version_number of create_version, given the latest version row
new_version_number_broken(latest, vs) ==
    IF latest.tag = "one" THEN Cardinality(vs) + 1 ELSE 1

new_version_number(latest, vs) ==
    IF latest.tag = "one" THEN latest.row.version_number + 1 ELSE 1

\* create_version, make_current branch: clear is_current on the versions
\* of the script that have it
clear_current_broken(vs, script_id) == vs

clear_current(vs, script_id) ==
    {IF v.script_id = script_id /\ v.is_current
     THEN [v EXCEPT !.is_current = FALSE] ELSE v : v \in vs}

\* the ScriptVersion row create_version builds from the script
NewVersion(id, s, n, description, make_current) ==
    [id |-> id, script_id |-> s.id, version_number |-> n, content |-> s.content,
     predicted_rating |-> s.predicted_rating,
     change_description |-> description, is_current |-> make_current]

\* VersionService.create_version up to and including its commit: the
\* outcome ("ok", "ValueError" or "MultipleResultsFound"), and the
\* committed script and versions; id is the primary key the database
\* gives the new row
create_version(s, vs, id, script_id, description, make_current) ==
    LET row == get_script_row(s, script_id)
        latest == scalar_one_or_none(versions_of(vs, script_id))
        n == new_version_number(latest, vs)
    IN  IF row.tag = "none"
        THEN [outcome |-> "ValueError", script |-> s, versions |-> vs, new |-> 0]
        ELSE IF latest.tag = "MultipleResultsFound"
        THEN [outcome |-> "MultipleResultsFound", script |-> s,
              versions |-> vs, new |-> 0]
        ELSE IF make_current
        THEN [outcome |-> "ok",
              script |-> [s EXCEPT !.current_version = n],
              versions |-> clear_current(vs, script_id)
                           \cup {NewVersion(id, s, n, description, TRUE)},
              new |-> n]
        ELSE [outcome |-> "ok", script |-> s,
              versions |-> vs \cup {NewVersion(id, s, n, description, FALSE)},
              new |-> n]

\* restore_version: is_current of every version of the script becomes
\* (version_number == the restored number)
flip_current(vs, script_id, version_number) ==
    {IF v.script_id = script_id
     THEN [v EXCEPT !.is_current = (v.version_number = version_number)]
     ELSE v : v \in vs}

\* restore_version: the script's fields overwritten from the version
overwrite_script_broken(s, version) ==
    [s EXCEPT !.content = version.content,
              !.predicted_rating = version.predicted_rating]

overwrite_script(s, version) ==
    [s EXCEPT !.content = version.content,
              !.predicted_rating = version.predicted_rating,
              !.current_version = version.version_number]

\* VersionService.delete_version with the status the endpoint maps its
\* result to: False -> 404, ValueError -> 400, True -> 200
delete_version_broken(vs, script_id, version_number) ==
    LET version == get_version(vs, script_id, version_number)
    IN  IF version.tag = "none" THEN [status |-> 404, versions |-> vs]
        ELSE [status |-> 200, versions |-> vs \ {version.row}]

delete_version(vs, script_id, version_number) ==
    LET version == get_version(vs, script_id, version_number)
    IN  IF version.tag = "none" THEN [status |-> 404, versions |-> vs]
        ELSE IF version.row.is_current THEN [status |-> 400, versions |-> vs]
        ELSE [status |-> 200, versions |-> vs \ {version.row}]

(***************************************************************************)
(* Version store: state machine                                            *)
(***************************************************************************)
\* lastOp: the last finished call, its arguments, the HTTP status of its
\* response and the committed state it started from (history only)
Op(op, script_id, arg, status, new, preScript, preVersions) ==
    [op |-> op, script_id |-> script_id, arg |-> arg, status |-> status,
     new |-> new, preScript |-> preScript, preVersions |-> preVersions]

Idle == [pc |-> "idle", version |-> None, preScript |-> None,
         preVersions |-> {}]

\* the row create_script stores: no rating yet, current_version at its
\* column default
NewScript ==
    [id |-> ScriptId, content |-> "text", predicted_rating |-> None,
     current_version |-> 1]

NoOp == Op("none", 0, 0, 0, 0, None, {})

\* POST /{script_id}/versions
CreateVersion(script_id, make_current) ==
    LET r == create_version(script, versions, nextId, script_id,
                            ManualDescription, make_current)
        status == IF r.outcome = "ok" THEN 200
                  ELSE IF r.outcome = "ValueError" THEN 404 ELSE 500
    IN  /\ restorePc.pc = "idle"
        /\ nextId <= MaxRows
        /\ script' = r.script
        /\ versions' = r.versions
        /\ nextId' = IF r.outcome = "ok" THEN nextId + 1 ELSE nextId
        /\ assigned' = IF r.outcome = "ok" THEN assigned \cup {r.new}
                       ELSE assigned
        /\ lastOp' = Op("create", script_id, make_current, status, r.new,
                        script, versions)
        /\ UNCHANGED restorePc

\* POST /{script_id}/versions/{n}/restore, up to the commit that
\* create_version makes for the backup version
RestoreBegin(script_id, version_number) ==
    LET version == get_version(versions, script_id, version_number)
        row == get_script_row(script, script_id)
        r == create_version(script, versions, nextId, script_id,
                            BackupDescription(version_number), FALSE)
    IN  /\ restorePc.pc = "idle"
        /\ nextId <= MaxRows
        /\ IF version.tag = "none" \/ row.tag = "none"
           THEN /\ lastOp' = Op("restore", script_id, version_number, 404, 0,
                                script, versions)
                /\ UNCHANGED <<script, versions, nextId, assigned, restorePc>>
           ELSE IF r.outcome # "ok"
           THEN /\ lastOp' = Op("restore", script_id, version_number, 500, 0,
                                script, versions)
                /\ UNCHANGED <<script, versions, nextId, assigned, restorePc>>
           ELSE /\ versions' = r.versions
                /\ nextId' = nextId + 1
                /\ assigned' = assigned \cup {r.new}
                /\ restorePc' = [pc |-> "backup_committed",
                                 version |-> version.row,
                                 preScript |-> script,
                                 preVersions |-> versions]
                /\ lastOp' = Op("restore_backup", script_id, version_number,
                                0, r.new, script, versions)
                /\ UNCHANGED script

\* restore_version from the overwrite of the script to its own commit
RestoreFinish ==
    /\ restorePc.pc = "backup_committed"
    /\ script' = overwrite_script(script, restorePc.version)
    /\ versions' = flip_current(versions, restorePc.version.script_id,
                                restorePc.version.version_number)
    /\ lastOp' = Op("restore", restorePc.version.script_id,
                    restorePc.version.version_number, 200, lastOp.new,
                    restorePc.preScript, restorePc.preVersions)
    /\ restorePc' = Idle
    /\ UNCHANGED <<nextId, assigned>>

\* the request ends between the two commits of restore_version (the
\* process stops, or the second commit raises): the session's uncommitted
\* changes are lost, the committed backup stays
RestoreAbort ==
    /\ restorePc.pc = "backup_committed"
    /\ lastOp' = Op("restore_aborted", restorePc.version.script_id,
                    restorePc.version.version_number, 500, lastOp.new,
                    restorePc.preScript, restorePc.preVersions)
    /\ restorePc' = Idle
    /\ UNCHANGED <<script, versions, nextId, assigned>>

\* DELETE /{script_id}/versions/{n}
DeleteVersion(script_id, version_number) ==
    LET r == delete_version(versions, script_id, version_number)
    IN  /\ restorePc.pc = "idle"
        /\ versions' = r.versions
        /\ lastOp' = Op("delete", script_id, version_number, r.status, 0,
                        script, versions)
        /\ UNCHANGED <<script, nextId, assigned, restorePc>>

\* POST /{script_id}/rate?background=false with the ML result's rating:
\* process_rating stores the rating on the script
RateScript(rating) ==
    /\ restorePc.pc = "idle"
    /\ script' = [script EXCEPT !.predicted_rating = rating]
    /\ lastOp' = Op("rate", ScriptId, 0, 200, 0, script, versions)
    /\ UNCHANGED <<versions, nextId, assigned, restorePc>>

NextVersions ==
    \/ \E sid \in ScriptIds, mc \in BOOLEAN : CreateVersion(sid, mc)
    \/ \E sid \in ScriptIds, n \in 1..MaxRows : RestoreBegin(sid, n)
    \/ RestoreFinish
    \/ RestoreAbort
    \/ \E sid \in ScriptIds, n \in 1..MaxRows : DeleteVersion(sid, n)
    \/ \E r \in Ratings : RateScript(r)


(***************************************************************************)
(* Rating: queue, worker and process_rating                                *)
(***************************************************************************)
\* responses of the ML service to POST /rate_script: the rating (with it
\* agg_scores, total_scenes and model_version) and the scene_ids of
\* top_trigger_scenes
MLResults == {[predicted_rating |-> "6+", top_trigger_scenes |-> <<0>>],
              [predicted_rating |-> "16+", top_trigger_scenes |-> <<0, 1>>]}

NoResult == [predicted_rating |-> None, top_trigger_scenes |-> <<>>]

\* what get_script (with selectinload(Script.scenes)) loads into a session
Loaded(s, sc) == [predicted_rating |-> s.predicted_rating, scenes |-> sc]

NotLoaded == [predicted_rating |-> None, scenes |-> <<>>]

\* the statuses in which a job counts as active
Active == {"queued", "in_progress"}

ActiveJobs(ts, script_id) ==
    {i \in DOMAIN ts : /\ ts[i].kind = "job"
                       /\ ts[i].script_id = script_id
                       /\ ts[i].status \in Active}

\* the Scene rows process_rating adds for a result
SceneRows(script_id, result) ==
    [k \in DOMAIN result.top_trigger_scenes |->
        [script_id |-> script_id,
         scene_id |-> result.top_trigger_scenes[k],
         rated |-> result.predicted_rating]]

\* process_rating from the assignment of the result to its commit: the
\* session updates the fields it assigned on the scripts row and inserts
\* the rows it added; db is the committed state, loaded what the session
\* read before the ML call
commit_rating_stale(db, loaded, script_id, result) ==
    [script |-> [db.script EXCEPT
                    !.predicted_rating = result.predicted_rating],
     scenes |-> loaded.scenes \o SceneRows(script_id, result),
     rating_logs |-> Append(db.rating_logs,
                            [script_id |-> script_id,
                             predicted_rating |-> result.predicted_rating])]

\* process_rating with the rating log added after the commit, so that the
\* row is never stored
commit_rating_partial(db, loaded, script_id, result) ==
    [script |-> [db.script EXCEPT
                    !.predicted_rating = result.predicted_rating],
     scenes |-> db.scenes \o SceneRows(script_id, result),
     rating_logs |-> db.rating_logs]

commit_rating(db, loaded, script_id, result) ==
    [script |-> [db.script EXCEPT
                    !.predicted_rating = result.predicted_rating],
     scenes |-> db.scenes \o SceneRows(script_id, result),
     rating_logs |-> Append(db.rating_logs,
                            [script_id |-> script_id,
                             predicted_rating |-> result.predicted_rating])]

Task(kind, script_id, status, loaded) ==
    [kind |-> kind, script_id |-> script_id, status |-> status,
     loaded |-> loaded, result |-> NoResult]

NoEnqueue == [script_id |-> 0, status |-> 0, job_id |-> 0, active |-> {}]

\* POST /{script_id}/rate with background=true: enqueue_rating_job puts a
\* job with a fresh job id on the queue
EnqueueRating(script_id) ==
    /\ Len(tasks) < MaxTasks
    /\ IF get_script_row(script, script_id).tag = "none"
       THEN /\ lastEnqueue' = [script_id |-> script_id, status |-> 404,
                               job_id |-> 0, active |-> {}]
            /\ UNCHANGED tasks
       ELSE /\ tasks' = Append(tasks, Task("job", script_id, "queued",
                                           NotLoaded))
            /\ lastEnqueue' = [script_id |-> script_id, status |-> 200,
                               job_id |-> Len(tasks) + 1,
                               active |-> ActiveJobs(tasks, script_id)]
    /\ UNCHANGED <<script, scenes, rating_logs, committed>>

\* the worker takes a queued job: process_script_rating opens a session
\* and process_rating loads the script
StartJob(i) ==
    /\ tasks[i].kind = "job"
    /\ tasks[i].status = "queued"
    /\ tasks' = [tasks EXCEPT ![i].status = "in_progress",
                              ![i].loaded = Loaded(script, scenes)]
    /\ UNCHANGED <<script, scenes, rating_logs, committed, lastEnqueue>>

\* POST /{script_id}/rate with background=false: the request's session
\* loads the script and process_rating runs in the request
SyncRate(script_id) ==
    /\ Len(tasks) < MaxTasks
    /\ get_script_row(script, script_id).tag = "one"
    /\ tasks' = Append(tasks, Task("sync", script_id, "in_progress",
                                   Loaded(script, scenes)))
    /\ UNCHANGED <<script, scenes, rating_logs, committed, lastEnqueue>>

\* process_rating called for a script id without a row (a job whose script
\* is gone, or a direct call): get_script returns None and ValueError
\* "Script <id> not found" is raised before anything is assigned
ProcessRatingNotFound(script_id) ==
    /\ Len(tasks) < MaxTasks
    /\ get_script_row(script, script_id).tag = "none"
    /\ tasks' = Append(tasks, Task("call", script_id, "failed", NotLoaded))
    /\ UNCHANGED <<script, scenes, rating_logs, committed, lastEnqueue>>

\* ml_client.rate_script returns a result
MLReturn(i, result) ==
    /\ tasks[i].status = "in_progress"
    /\ tasks[i].result = NoResult
    /\ tasks' = [tasks EXCEPT ![i].result = result]
    /\ UNCHANGED <<script, scenes, rating_logs, committed, lastEnqueue>>

\* ml_client.rate_script raises: process_rating ends without a commit
MLFail(i) ==
    /\ tasks[i].status = "in_progress"
    /\ tasks[i].result = NoResult
    /\ tasks' = [tasks EXCEPT ![i].status = "failed"]
    /\ UNCHANGED <<script, scenes, rating_logs, committed, lastEnqueue>>

\* process_rating assigns the result, adds the rows and commits
CommitRating(i) ==
    LET db == [script |-> script, scenes |-> scenes,
               rating_logs |-> rating_logs]
        new == commit_rating(db, tasks[i].loaded, tasks[i].script_id,
                             tasks[i].result)
    IN  /\ tasks[i].status = "in_progress"
        /\ tasks[i].result # NoResult
        /\ script' = new.script
        /\ scenes' = new.scenes
        /\ rating_logs' = new.rating_logs
        /\ tasks' = [tasks EXCEPT ![i].status = "complete"]
        /\ committed' = Append(committed, i)
        /\ UNCHANGED lastEnqueue

NextRating ==
    \/ \E sid \in ScriptIds : EnqueueRating(sid)
    \/ \E i \in DOMAIN tasks : StartJob(i)
    \/ \E sid \in ScriptIds : SyncRate(sid)
    \/ \E i \in DOMAIN tasks, r \in MLResults : MLReturn(i, r)
    \/ \E i \in DOMAIN tasks : MLFail(i)
    \/ \E i \in DOMAIN tasks : CommitRating(i)
    \/ \E sid \in ScriptIds : ProcessRatingNotFound(sid)

\* GET /jobs/{job_id}: what the queue knows of a job.  A job whose function
\* returned and a job whose function raised both have a stored result and
\* the queue's status complete; the result of the latter is the exception.
job_info(ts, job_id) ==
    IF job_id \notin DOMAIN ts \/ ts[job_id].kind # "job"
    THEN [tag |-> "none"]
    ELSE [tag |-> "info",
          status |-> IF ts[job_id].status \in {"complete", "failed"}
                     THEN "complete" ELSE ts[job_id].status,
          result |-> IF ts[job_id].status = "failed" THEN "exception"
                     ELSE ts[job_id].result.predicted_rating]

\* status_mapping.get(job_info.status, "unknown")
status_mapping(status) ==
    CASE status = "deferred" -> "deferred"
      [] status = "queued" -> "queued"
      [] status = "in_progress" -> "in_progress"
      [] status = "complete" -> "completed"
      [] status = "not_found" -> "not_found"
      [] OTHER -> "unknown"

get_job_status(ts, job_id) ==
    LET info == job_info(ts, job_id)
    IN  IF info.tag = "none"
        THEN [job_id |-> job_id, status |-> "not_found", result |-> None,
              error |-> None]
        ELSE [job_id |-> job_id,
              status |-> status_mapping(info.status),
              result |-> IF info.status = "complete" THEN info.result
                         ELSE None,
              error |-> IF info.status \notin {"complete", "queued",
                                               "in_progress", "deferred"}
                        THEN info.result ELSE None]

(***************************************************************************)
(* ML service client: MLServiceClient.rate_script                          *)
(***************************************************************************)
\* what one POST to the ML service ends in
StatusCodes == {422, 500, 503}

Outcomes == {[kind |-> "ok", status |-> 200],
             [kind |-> "timeout", status |-> 0],
             [kind |-> "request_error", status |-> 0]}
            \cup {[kind |-> "http_status", status |-> c] : c \in StatusCodes}

\* except httpx.HTTPStatusError: raise MLServiceError("HTTP <status>")
on_http_status_error_retry(c, outcome) ==
    IF c.attempt < c.max_retries - 1
    THEN [c EXCEPT !.pc = "sleeping", !.last_error = "request_error",
                   !.trace = Append(c.trace, outcome)]
    ELSE [c EXCEPT !.attempt = c.attempt + 1, !.last_error = "request_error",
                   !.trace = Append(c.trace, outcome)]

on_http_status_error(c, outcome) ==
    [c EXCEPT !.pc = "raised",
              !.error = [kind |-> "MLServiceError", status |-> outcome.status],
              !.trace = Append(c.trace, outcome)]

\* the same without the test for the last attempt: sleeps after every
\* failed attempt
on_transient_error_always_sleep(c, outcome) ==
    [c EXCEPT !.pc = "sleeping", !.last_error = outcome.kind,
              !.trace = Append(c.trace, outcome)]

\* except httpx.TimeoutException / httpx.RequestError: remember the error;
\* sleep and continue unless this was the last attempt
on_transient_error(c, outcome) ==
    IF c.attempt < c.max_retries - 1
    THEN [c EXCEPT !.pc = "sleeping", !.last_error = outcome.kind,
                   !.trace = Append(c.trace, outcome)]
    ELSE [c EXCEPT !.attempt = c.attempt + 1, !.last_error = outcome.kind,
                   !.trace = Append(c.trace, outcome)]

\* the statements after the for loop, without the isinstance test that
\* tells a timeout from a transport error
after_loop_broken(c) ==
    IF c.last_error \in {"timeout", "request_error"}
    THEN [c EXCEPT !.pc = "raised",
                   !.error = [kind |-> "MLServiceError", status |-> 0]]
    ELSE [c EXCEPT !.pc = "raised",
                   !.error = [kind |-> "MLServiceError", status |-> -1]]

\* the statements after the for loop
after_loop(c) ==
    IF c.last_error = "timeout"
    THEN [c EXCEPT !.pc = "raised",
                   !.error = [kind |-> "MLServiceTimeoutError", status |-> 0]]
    ELSE IF c.last_error = "request_error"
    THEN [c EXCEPT !.pc = "raised",
                   !.error = [kind |-> "MLServiceError", status |-> 0]]
    ELSE [c EXCEPT !.pc = "raised",
                   !.error = [kind |-> "MLServiceError", status |-> -1]]

NoError == [kind |-> None, status |-> 0]

\* a call that has not made its first attempt, with the client's
\* max_retries
NewCall(max_retries) ==
    [max_retries |-> max_retries, attempt |-> 0, pc |-> "calling",
     last_error |-> None, sleeps |-> <<>>, trace |-> <<>>, error |-> NoError]

\* one iteration of the for loop up to its first await after the POST
Attempt(outcome) ==
    /\ client.pc = "calling"
    /\ client.attempt < client.max_retries
    /\ client' =
         IF outcome.kind = "ok"
         THEN [client EXCEPT !.pc = "returned",
                             !.trace = Append(client.trace, outcome)]
         ELSE IF outcome.kind = "http_status"
         THEN on_http_status_error(client, outcome)
         ELSE on_transient_error(client, outcome)

\* await asyncio.sleep(retry_delay * 2**attempt); continue
Sleep ==
    /\ client.pc = "sleeping"
    /\ client' = [client EXCEPT !.pc = "calling",
                                !.sleeps = Append(client.sleeps,
                                                  2 ^ client.attempt),
                                !.attempt = client.attempt + 1]

\* range(max_retries) is exhausted
Exhausted ==
    /\ client.pc = "calling"
    /\ client.attempt >= client.max_retries
    /\ client' = after_loop(client)

NextClient ==
    \/ \E o \in Outcomes : Attempt(o)
    \/ Sleep
    \/ Exhausted

(***************************************************************************)
(* ML service: RatingPipeline.map_scores_to_rating                         *)
(* Scores are in hundredths: 80 is the score 0.8.                          *)
(***************************************************************************)
Dims == {"violence", "gore", "sex_act", "nudity", "profanity", "drugs",
         "child_risk"}

\* the scores the model rates: for every threshold of the cascade the
\* threshold and a score below it (above it for the strict one)
Grid == [violence |-> {0, 29, 30, 39, 40, 49, 50},
         gore |-> {0, 39, 40, 79, 80},
         sex_act |-> {0, 49, 50, 79, 80},
         nudity |-> {29, 30},
         profanity |-> {49, 50},
         drugs |-> {39, 40},
         child_risk |-> {50, 51}]

Vectors == [violence : Grid.violence, gore : Grid.gore,
            sex_act : Grid.sex_act, nudity : Grid.nudity,
            profanity : Grid.profanity, drugs : Grid.drugs,
            child_risk : Grid.child_risk]

ZeroScores == [d \in Dims |-> 0]

NotRated == [rating |-> None, reasons |-> <<>>]

NoLower == [agg |-> ZeroScores, rating |-> None]

\* the cascade with ">=" for the child_risk test
map_scores_to_rating_broken(a) ==
    IF a["sex_act"] >= 80 \/ a["gore"] >= 80
    THEN [rating |-> "18+",
          reasons |-> <<"explicit sexual or violent content">>]
    ELSE IF a["child_risk"] >= 50
            /\ (a["sex_act"] >= 50 \/ a["violence"] >= 50)
    THEN [rating |-> "18+",
          reasons |-> <<"violence or sexual content involving minors">>]
    ELSE IF a["violence"] >= 40 \/ a["gore"] >= 40
    THEN [rating |-> "16+", reasons |-> <<"explicit violence or murder">>]
    ELSE IF a["profanity"] >= 50 \/ a["drugs"] >= 40 \/ a["nudity"] >= 30
    THEN [rating |-> "12+",
          reasons |-> <<"moderate language, alcohol/tobacco, mild nudity">>]
    ELSE IF a["violence"] >= 30
    THEN [rating |-> "12+", reasons |-> <<"moderate violence or threats">>]
    ELSE [rating |-> "6+", reasons |-> <<>>]

\* the cascade with the language/drugs/nudity test before the violence/gore
\* test
map_scores_to_rating_reordered(a) ==
    IF a["sex_act"] >= 80 \/ a["gore"] >= 80
    THEN [rating |-> "18+",
          reasons |-> <<"explicit sexual or violent content">>]
    ELSE IF a["child_risk"] > 50
            /\ (a["sex_act"] >= 50 \/ a["violence"] >= 50)
    THEN [rating |-> "18+",
          reasons |-> <<"violence or sexual content involving minors">>]
    ELSE IF a["profanity"] >= 50 \/ a["drugs"] >= 40 \/ a["nudity"] >= 30
    THEN [rating |-> "12+",
          reasons |-> <<"moderate language, alcohol/tobacco, mild nudity">>]
    ELSE IF a["violence"] >= 40 \/ a["gore"] >= 40
    THEN [rating |-> "16+", reasons |-> <<"explicit violence or murder">>]
    ELSE IF a["violence"] >= 30
    THEN [rating |-> "12+", reasons |-> <<"moderate violence or threats">>]
    ELSE [rating |-> "6+", reasons |-> <<>>]

\* rating = "6+", reasons = [] and the if / elif chain
map_scores_to_rating(a) ==
    IF a["sex_act"] >= 80 \/ a["gore"] >= 80
    THEN [rating |-> "18+",
          reasons |-> <<"explicit sexual or violent content">>]
    ELSE IF a["child_risk"] > 50
            /\ (a["sex_act"] >= 50 \/ a["violence"] >= 50)
    THEN [rating |-> "18+",
          reasons |-> <<"violence or sexual content involving minors">>]
    ELSE IF a["violence"] >= 40 \/ a["gore"] >= 40
    THEN [rating |-> "16+", reasons |-> <<"explicit violence or murder">>]
    ELSE IF a["profanity"] >= 50 \/ a["drugs"] >= 40 \/ a["nudity"] >= 30
    THEN [rating |-> "12+",
          reasons |-> <<"moderate language, alcohol/tobacco, mild nudity">>]
    ELSE IF a["violence"] >= 30
    THEN [rating |-> "12+", reasons |-> <<"moderate violence or threats">>]
    ELSE [rating |-> "6+", reasons |-> <<>>]

\* the mapper is called with the aggregated scores
MapScoresToRating ==
    /\ rated = NotRated
    /\ rated' = map_scores_to_rating(agg)
    /\ UNCHANGED <<agg, lower>>

\* the mapper is called again with one score raised
RaiseScore(d, v) ==
    /\ rated # NotRated
    /\ v \in Grid[d]
    /\ v > agg[d]
    /\ agg' = [agg EXCEPT ![d] = v]
    /\ rated' = map_scores_to_rating(agg')
    /\ lower' = [agg |-> agg, rating |-> rated.rating]

NextCascade ==
    \/ MapScoresToRating
    \/ \E d \in Dims : \E v \in Grid[d] : RaiseScore(d, v)

(***************************************************************************)
(* ML service: scene_feature_vector and normalize_scene_scores             *)
(* The violence feature and the normalized scores are in hundredths.       *)
(***************************************************************************)
\* numbers of matches of a pattern list in a scene, and its words
Counts == {0, 2, MaxCount}

Words == {0, 1, 150, 400}

\* what the patterns find in a scene text: the count_matches sums, the
\* number of GORE_STRICT keywords that count, whether a heroic keyword and
\* whether a visceral word occurs, and len(txt.split())
SceneCounts ==
    [psych : {0, MaxCount}, violence : Counts, profanity : Counts,
     drugs : Counts, child_mentions : Counts, nudity : Counts,
     sex_act : Counts, gore : Counts, heroic : BOOLEAN, visceral : BOOLEAN,
     words : Words]

NoCounts ==
    [psych |-> 0, violence |-> 0, profanity |-> 0, drugs |-> 0,
     child_mentions |-> 0, nudity |-> 0, sex_act |-> 0, gore |-> 0,
     heroic |-> FALSE, visceral |-> FALSE, words |-> 0]

NoFeatures ==
    [violence |-> 0, gore |-> 0, sex_act |-> 0, nudity |-> 0,
     profanity |-> 0, drugs |-> 0, child_mentions |-> 0, length |-> 0]

NoScores == [d \in Dims |-> -1]

Min(a, b) == IF a < b THEN a ELSE b

\* violence *= 0.6 with a heroic keyword, *= 0.7 without a visceral word,
\* plus half the psychological matches; length = max(1, words)
scene_feature_vector(c) ==
    LET v0 == c.violence * 100
        v1 == IF c.heroic THEN (v0 * 60) \div 100 ELSE v0
        v2 == IF v1 > 0 /\ ~c.visceral THEN (v1 * 70) \div 100 ELSE v1
    IN  [violence |-> v2 + c.psych * 50,
         gore |-> c.gore,
         sex_act |-> c.sex_act,
         nudity |-> c.nudity,
         profanity |-> c.profanity,
         drugs |-> c.drugs,
         child_mentions |-> c.child_mentions,
         length |-> IF c.words > 1 THEN c.words ELSE 1]

\* the normalizer without min(1.0, ...) for the density of violence
normalize_scene_scores_unclamped(f) ==
    [violence |-> (f.violence * 150) \div f.length,
     gore |-> Min(100, (f.gore * 100) \div 2),
     sex_act |-> Min(100, f.sex_act * 100),
     nudity |-> Min(100, (f.nudity * 100) \div 3),
     profanity |-> Min(100, (f.profanity * 100) \div 5),
     drugs |-> Min(100, (f.drugs * 100) \div 5),
     child_risk |-> Min(100, (f.child_mentions * 100) \div 3)]

\* min(1.0, violence / (L / 150)) and min(1.0, count / divisor)
normalize_scene_scores(f) ==
    [violence |-> Min(100, (f.violence * 150) \div f.length),
     gore |-> Min(100, (f.gore * 100) \div 2),
     sex_act |-> Min(100, f.sex_act * 100),
     nudity |-> Min(100, (f.nudity * 100) \div 3),
     profanity |-> Min(100, (f.profanity * 100) \div 5),
     drugs |-> Min(100, (f.drugs * 100) \div 5),
     child_risk |-> Min(100, (f.child_mentions * 100) \div 3)]

\* features = self.scene_feature_vector(s["text"])
SceneFeatureVector ==
    /\ features = NoFeatures
    /\ features' = scene_feature_vector(scene_counts)
    /\ UNCHANGED <<scene_counts, normalized>>

\* normalized = self.normalize_scene_scores(features)
NormalizeSceneScores ==
    /\ features # NoFeatures
    /\ normalized = NoScores
    /\ normalized' = normalize_scene_scores(features)
    /\ UNCHANGED <<scene_counts, features>>

NextNormalize ==
    \/ SceneFeatureVector
    \/ NormalizeSceneScores

(***************************************************************************)
(* ML service: scene segmentation and the what-if analysis of a text       *)
(* A script text is a sequence of tokens: a scene-heading marker, a plain  *)
(* word, a violent word, a space and the blank line of the rebuilt text.   *)
(***************************************************************************)
Marker == "INT."

BlankLine == "<blank line>"

Alphabet == {Marker, "word", "kill", " "}

Texts(n) == UNION {[1..k -> Alphabet] : k \in 0..n}

IsSpace(t) == t \in {" ", BlankLine}

RECURSIVE lstrip(_)
lstrip(txt) ==
    IF txt # <<>> /\ IsSpace(Head(txt)) THEN lstrip(Tail(txt)) ELSE txt

RECURSIVE rstrip(_)
rstrip(txt) ==
    IF txt # <<>> /\ IsSpace(txt[Len(txt)])
    THEN rstrip(SubSeq(txt, 1, Len(txt) - 1))
    ELSE txt

strip(txt) == rstrip(lstrip(txt))

\* re.split on the lookahead: a cut in front of every marker, the part
\* before the first marker included even when it is empty
re_split(txt) ==
    LET marks == {i \in 1..Len(txt) : txt[i] = Marker}
        k == Cardinality(marks)
        Mark(j) == CHOOSE i \in marks :
                       Cardinality({x \in marks : x < i}) = j - 1
        First(j) == IF j = 1 THEN 1 ELSE Mark(j - 1)
        Last(j) == IF j = k + 1 THEN Len(txt) ELSE Mark(j) - 1
    IN  [j \in 1..(k + 1) |-> SubSeq(txt, First(j), Last(j))]

\* the match of ((?:INT\.|EXT\.).{0,120}) at the start of a scene, or
\* scene_<idx>
heading_of(text, idx) ==
    LET ends == {i \in 1..Len(text) : text[i] = BlankLine}
        line == IF ends = {} THEN text
                ELSE SubSeq(text, 1, (CHOOSE i \in ends :
                                          \A j \in ends : i <= j) - 1)
    IN  IF text[1] = Marker
        THEN [kind |-> "heading", idx |-> 0, line |-> strip(line)]
        ELSE [kind |-> "scene_", idx |-> idx, line |-> <<>>]

full_text == [kind |-> "full_text", idx |-> 0, line |-> <<>>]

\* the segmenter numbering the scenes by the part they come from, the
\* empty parts counted
parse_script_to_scenes_sparse(txt) ==
    LET parts == re_split(txt)
        places == {j \in 1..Len(parts) : strip(parts[j]) # <<>>}
        Place(i) == CHOOSE j \in places :
                        Cardinality({x \in places : x < j}) = i - 1
    IN  IF Len(parts) < 5
        THEN <<[scene_id |-> 0, heading |-> full_text, text |-> txt]>>
        ELSE [i \in 1..Cardinality(places) |->
                 [scene_id |-> Place(i) - 1,
                  heading |-> heading_of(strip(parts[Place(i)]), Place(i) - 1),
                  text |-> strip(parts[Place(i)])]]

parse_script_to_scenes(txt) ==
    LET parts == re_split(txt)
        stripped == [j \in 1..Len(parts) |-> strip(parts[j])]
        kept == SelectSeq(stripped, LAMBDA part : part # <<>>)
    IN  IF Len(parts) < 5
        THEN <<[scene_id |-> 0, heading |-> full_text, text |-> txt]>>
        ELSE [i \in 1..Len(kept) |->
                 [scene_id |-> i - 1,
                  heading |-> heading_of(kept[i], i - 1),
                  text |-> kept[i]]]

\* what the patterns match in a scene text of the token alphabet, and the
\* number of its words, len(txt.split())
match_scene(text) ==
    [psych |-> 0,
     violence |-> Cardinality({i \in 1..Len(text) : text[i] = "kill"}),
     profanity |-> 0, drugs |-> 0, child_mentions |-> 0, nudity |-> 0,
     sex_act |-> 0, gore |-> 0, heroic |-> FALSE, visceral |-> FALSE,
     words |-> Cardinality({i \in 1..Len(text) :
                              /\ ~IsSpace(text[i])
                              /\ (i = 1 \/ IsSpace(text[i - 1]))})]

\* the i-th smallest (from 0) of a sequence of values
Sorted(values, i) ==
    CHOOSE v \in {values[j] : j \in DOMAIN values} :
        /\ Cardinality({j \in DOMAIN values : values[j] < v}) <= i
        /\ i < Cardinality({j \in DOMAIN values : values[j] <= v})

\* np.percentile(values, q), linear interpolation, in units of 1/10000
percentile(values, q) ==
    LET n == Len(values)
        pos == (n - 1) * q
        lo == pos \div 100
        hi == IF lo + 1 < n THEN lo + 1 ELSE lo
    IN  Sorted(values, lo) * 100
          + (pos % 100) * (Sorted(values, hi) - Sorted(values, lo))

np_max(values) ==
    CHOOSE v \in {values[j] : j \in DOMAIN values} :
        \A j \in DOMAIN values : values[j] <= v

\* the hybrid aggregate of one dimension, in units of 1/1000000
aggregate(k, values) ==
    IF k \in {"violence", "gore"}
    THEN 70 * (100 * np_max(values)) + 30 * percentile(values, 95)
    ELSE IF k \in {"sex_act", "nudity", "child_risk"}
    THEN 85 * (100 * np_max(values)) + 15 * percentile(values, 90)
    ELSE 100 * percentile(values, 90)

\* the aggregate as the hundredths the mapper's comparisons see: x >= t
\* for the floor of x, x > t for its ceiling
as_hundredths(k, x) ==
    IF k = "child_risk" THEN (x + 9999) \div 10000 ELSE x \div 10000

\* _analyze_script: segment, score every scene, aggregate, map; the scores
\* are rounded to three decimals
analyze_script(txt) ==
    LET parsed == parse_script_to_scenes(txt)
        scores == [i \in 1..Len(parsed) |->
                      normalize_scene_scores(
                          scene_feature_vector(match_scene(parsed[i].text)))]
        agg6 == [k \in Dims |->
                    aggregate(k, [i \in 1..Len(scores) |-> scores[i][k]])]
        rating_info ==
            map_scores_to_rating([k \in Dims |-> as_hundredths(k, agg6[k])])
    IN  [rating |-> rating_info.rating,
         reasons |-> rating_info.reasons,
         scores |-> [k \in Dims |-> (agg6[k] + 500) \div 1000],
         total_scenes |-> Len(parsed)]

(***************************************************************************)
(* ML service: the structured what-if engine and its strategies            *)
(***************************************************************************)
\* the state of the analyzer's llm_generator
Generators == {"unconfigured", "working", "failing"}

\* SceneClassifier.classify_scenes: a copy of every scene with its type.
\* A scene of the engine has no characters and no location key; the
\* strategies read them with the defaults [] and None.
classify_scenes(parsed) ==
    [i \in 1..Len(parsed) |->
        [scene_id |-> parsed[i].scene_id,
         heading |-> parsed[i].heading,
         text |-> parsed[i].text,
         scene_type |-> IF \E j \in 1..Len(parsed[i].text) :
                               parsed[i].text[j] = "kill"
                        THEN "action" ELSE "dialogue",
         characters |-> {},
         location |-> None]]

\* for idx, scene in enumerate(filtered_scenes): scene["scene_id"] = idx
renumber(filtered) ==
    [i \in 1..Len(filtered) |-> [filtered[i] EXCEPT !.scene_id = i - 1]]

\* the ids to remove: scene_ids and the ids of the scenes that match
\* scene_types, characters or locations
scenes_to_remove(stream, params) ==
    (IF "scene_ids" \in params.keys THEN params.scene_ids ELSE {})
    \cup {stream[i].scene_id : i \in
              {j \in 1..Len(stream) :
                  \/ /\ "scene_types" \in params.keys
                     /\ stream[j].scene_type \in params.scene_types
                  \/ /\ "characters" \in params.keys
                     /\ stream[j].characters \cap params.characters # {}
                  \/ /\ "locations" \in params.keys
                     /\ stream[j].location \in params.locations}}

\* SceneRemovalStrategy.apply counting the ids asked for instead of the
\* scenes dropped
scene_removal_apply_broken(stream, params) ==
    LET ids == scenes_to_remove(stream, params)
        filtered == SelectSeq(stream, LAMBDA sc : sc.scene_id \notin ids)
    IN  [scenes |-> renumber(filtered),
         metadata |-> [removed_count |-> Cardinality(ids),
                       removed_scene_ids |-> ids,
                       remaining_count |-> Len(filtered)]]

\* SceneRemovalStrategy.apply
scene_removal_apply(stream, params) ==
    LET ids == scenes_to_remove(stream, params)
        filtered == SelectSeq(stream, LAMBDA sc : sc.scene_id \notin ids)
    IN  [scenes |-> renumber(filtered),
         metadata |-> [removed_count |-> Len(stream) - Len(filtered),
                       removed_scene_ids |-> ids,
                       remaining_count |-> Len(filtered)]]

\* SceneRemovalStrategy.validate_params
scene_removal_validate_params(params) ==
    params.keys \cap {"scene_ids", "scene_types", "characters",
                      "locations"} # {}

\* LLMRewriteStrategy.apply: without a generator the scenes come back as
\* they are with an error in the metadata; with one, every scene in scope
\* is rewritten, and kept when the generator raises
llm_rewrite_apply(generator, stream, params) ==
    IF generator = "unconfigured"
    THEN [scenes |-> stream,
          metadata |-> [error |-> "LLM generator not configured"]]
    ELSE LET should_rewrite(sc) ==
                 ~("scope" \in params.keys /\ params.scope # {}
                   /\ sc.scene_id \notin params.scope)
             rewritten == {i \in 1..Len(stream) :
                              /\ should_rewrite(stream[i])
                              /\ generator = "working"}
         IN  [scenes |-> [i \in 1..Len(stream) |->
                             IF i \in rewritten
                             THEN [stream[i] EXCEPT !.text = <<"word">>]
                             ELSE stream[i]],
              metadata |-> [scenes_rewritten |-> Cardinality(rewritten)]]

\* _init_strategies: the types the registered strategies can handle; the
\* LLM strategy is registered only with a generator
init_strategies(generator) ==
    {"remove_scenes", "delete_scenes"}
    \cup (IF generator # "unconfigured"
          THEN {"llm_rewrite", "intelligent_rewrite",
                "contextual_modification"}
          ELSE {})

NoMetadata == [none |-> TRUE]

\* a scene_ids value that is a number, not a list of ids
NotIterable == {-1}

\* scenes_to_remove.update(params["scene_ids"]) raises TypeError for it
scene_removal_raises(mod) ==
    /\ mod.type = "remove_scenes"
    /\ "scene_ids" \in mod.params.keys
    /\ mod.params.scene_ids = NotIterable

\* one iteration of the loop over request.modifications, with the
\* strategy given the classified scenes instead of the modified ones
apply_modification_original(e, mod) ==
    IF mod.type \notin init_strategies(e.generator)
    THEN [e EXCEPT !.applied = Append(@,
              [type |-> mod.type, metadata |-> NoMetadata,
               error |-> "No strategy found for modification type"]),
            !.trace = Append(@, [type |-> mod.type, input |-> e.stream,
                                 output |-> e.stream])]
    ELSE IF mod.type = "remove_scenes"
            /\ ~scene_removal_validate_params(mod.params)
    THEN e
    ELSE IF scene_removal_raises(mod)
    THEN [e EXCEPT !.applied = Append(@,
              [type |-> mod.type, metadata |-> NoMetadata,
               error |-> "'int' object is not iterable"]),
            !.trace = Append(@, [type |-> mod.type, input |-> e.stream,
                                 output |-> e.stream])]
    ELSE LET out == IF mod.type = "remove_scenes"
                    THEN scene_removal_apply(e.classified, mod.params)
                    ELSE llm_rewrite_apply(e.generator, e.classified,
                                           mod.params)
         IN  [e EXCEPT !.stream = out.scenes,
                !.applied = Append(@, [type |-> mod.type,
                                       metadata |-> out.metadata,
                                       error |-> None]),
                !.trace = Append(@, [type |-> mod.type,
                                     input |-> e.classified,
                                     output |-> out.scenes])]

\* one iteration of the loop over request.modifications: get_strategy
\* raises ValueError for a type no registered strategy handles, invalid
\* params skip the modification, otherwise the strategy is applied to the
\* modified scenes and its metadata recorded
apply_modification(e, mod) ==
    IF mod.type \notin init_strategies(e.generator)
    THEN [e EXCEPT !.applied = Append(@,
              [type |-> mod.type, metadata |-> NoMetadata,
               error |-> "No strategy found for modification type"]),
            !.trace = Append(@, [type |-> mod.type, input |-> e.stream,
                                 output |-> e.stream])]
    ELSE IF mod.type = "remove_scenes"
            /\ ~scene_removal_validate_params(mod.params)
    THEN e
    ELSE IF scene_removal_raises(mod)
    THEN [e EXCEPT !.applied = Append(@,
              [type |-> mod.type, metadata |-> NoMetadata,
               error |-> "'int' object is not iterable"]),
            !.trace = Append(@, [type |-> mod.type, input |-> e.stream,
                                 output |-> e.stream])]
    ELSE LET out == IF mod.type = "remove_scenes"
                    THEN scene_removal_apply(e.stream, mod.params)
                    ELSE llm_rewrite_apply(e.generator, e.stream,
                                           mod.params)
         IN  [e EXCEPT !.stream = out.scenes,
                !.applied = Append(@, [type |-> mod.type,
                                       metadata |-> out.metadata,
                                       error |-> None]),
                !.trace = Append(@, [type |-> mod.type,
                                     input |-> e.stream,
                                     output |-> out.scenes])]

\* the loop without the try / except around an iteration: the first
\* modification that fails ends it
RECURSIVE apply_modifications_abort(_, _)
apply_modifications_abort(e, mods) ==
    IF mods = <<>> THEN e
    ELSE LET next == apply_modification(e, Head(mods))
         IN  IF Len(next.applied) > Len(e.applied)
                /\ next.applied[Len(next.applied)].error # None
             THEN next
             ELSE apply_modifications_abort(next, Tail(mods))

RECURSIVE apply_modifications(_, _)
apply_modifications(e, mods) ==
    IF mods = <<>> THEN e
    ELSE apply_modifications(apply_modification(e, Head(mods)), Tail(mods))

\* "\n\n".join([s["text"] for s in scenes]) with every heading put in
\* front of its scene
RECURSIVE reconstruct_script_broken(_)
reconstruct_script_broken(stream) ==
    IF stream = <<>> THEN <<>>
    ELSE LET first == IF Head(stream).heading.kind = "heading"
                      THEN Head(stream).heading.line
                             \o <<BlankLine>> \o Head(stream).text
                      ELSE Head(stream).text
         IN  IF Len(stream) = 1 THEN first
             ELSE first \o <<BlankLine>>
                        \o reconstruct_script_broken(Tail(stream))

\* "\n\n".join([s["text"] for s in scenes])
RECURSIVE reconstruct_script(_)
reconstruct_script(stream) ==
    IF stream = <<>> THEN <<>>
    ELSE IF Len(stream) = 1 THEN Head(stream).text
    ELSE Head(stream).text \o <<BlankLine>>
                           \o reconstruct_script(Tail(stream))

\* analyze_structured
analyze_structured(req) ==
    LET original_result == analyze_script(req.script_text)
        classified == classify_scenes(parse_script_to_scenes(req.script_text))
        e == apply_modifications(
                 [generator |-> req.generator, classified |-> classified,
                  stream |-> classified, applied |-> <<>>, trace |-> <<>>],
                 req.modifications)
        modified_text == reconstruct_script(e.stream)
        modified_result == analyze_script(modified_text)
    IN  [original_rating |-> original_result.rating,
         modified_rating |-> modified_result.rating,
         original_scores |-> original_result.scores,
         modified_scores |-> modified_result.scores,
         modifications_applied |-> e.applied,
         modified_script |-> modified_text,
         rating_changed |-> original_result.rating # modified_result.rating,
         classified |-> classified,
         stream |-> e.stream,
         trace |-> e.trace]

\* the params of a modification: the keys present and their values
Params(keys, scene_ids, scope) ==
    [keys |-> keys, scene_ids |-> scene_ids, scene_types |-> {"action"},
     characters |-> {"JOHN"}, locations |-> {"HOUSE"}, scope |-> scope]

Mods == {[type |-> "remove_scenes", params |-> Params({"scene_ids"}, {0}, {})],
         [type |-> "remove_scenes", params |-> Params({"scene_ids"}, {1}, {})],
         [type |-> "remove_scenes", params |-> Params({}, {}, {})],
         [type |-> "llm_rewrite", params |-> Params({"scope"}, {}, {0})],
         [type |-> "remove_scenes",
          params |-> Params({"scene_ids"}, NotIterable, {})],
         [type |-> "translate", params |-> Params({}, {}, {})]}

ModLists == UNION {[1..k -> Mods] : k \in 0..MaxMods}

\* scripts of four scenes, of five scenes with a preamble, and of one scene
SampleScripts ==
    {<<Marker, "word", Marker, "kill", Marker, "word", Marker, "kill">>,
     <<"word", Marker, "kill", Marker, Marker, "kill", Marker>>,
     <<"word", " ", "kill">>}

NoRequest ==
    [script_text |-> <<>>, modifications |-> <<>>,
     generator |-> "unconfigured"]

NoResponse ==
    [original_rating |-> None, modified_rating |-> None,
     original_scores |-> ZeroScores, modified_scores |-> ZeroScores,
     modifications_applied |-> <<>>, modified_script |-> <<>>,
     rating_changed |-> FALSE, classified |-> <<>>, stream |-> <<>>,
     trace |-> <<>>]

\* POST /what_if_advanced
AnalyzeStructured ==
    /\ response = NoResponse
    /\ response' = analyze_structured(request)
    /\ UNCHANGED <<request, removal>>

NextWhatIf == AnalyzeStructured

\* scene lists with dense ids; the heading keeps the place a scene had
SceneLists ==
    UNION {{[i \in 1..n |->
                [scene_id |-> i - 1,
                 heading |-> [kind |-> "scene_", idx |-> i - 1, line |-> <<>>],
                 text |-> <<"word">>,
                 scene_type |-> a[i][1],
                 characters |-> a[i][2],
                 location |-> a[i][3]]] :
            a \in [1..n -> {"action", "dialogue"} \X {{}, {"JOHN"}}
                              \X {"HOUSE", "STREET"}]} :
           n \in 0..MaxScenes}

RemovalParams ==
    {Params(keys, ids, {}) :
        keys \in SUBSET {"scene_ids", "scene_types", "characters",
                         "locations"},
        ids \in {{1}, {0, 2}, {1, 7}}}

NotApplied == [scenes |-> <<>>, metadata |-> NoMetadata]

NoRemoval == [scenes |-> <<>>, params |-> Params({}, {}, {}), result |-> NotApplied]

\* strategy.apply(modified_scenes, mod_config.params, entities)
SceneRemoval ==
    /\ removal.result = NotApplied
    /\ removal' = [removal EXCEPT !.result =
                       scene_removal_apply(removal.scenes, removal.params)]
    /\ UNCHANGED <<request, response>>

NextRemoval == SceneRemoval

(***************************************************************************)
(* What-if strategies on scene lists: character rename, content reduction  *)
(* A scene text is its sequence of words.                                  *)
(***************************************************************************)
MaxCallScenes == 2

\* re.I: the words that differ by case only
casefold(word) ==
    CASE word \in {"JOHN", "John"} -> "john"
      [] word = "JOHNNY" -> "johnny"
      [] OTHER -> word

\* an optional entry of a params dict
Given(value) == [given |-> TRUE, value |-> value]

Absent(value) == [given |-> FALSE, value |-> value]

RECURSIVE SumSeq(_)
SumSeq(numbers) ==
    IF numbers = <<>> THEN 0 ELSE Head(numbers) + SumSeq(Tail(numbers))

\* CharacterFocusedStrategy._rename_character: the pattern
\* \b + character_name + \b with re.I matches the words equal to the name
\* up to case; the characters list is compared with ==
_rename_character(stream, character_name, params) ==
    IF ~params.new_name.given
    THEN [scenes |-> stream,
          metadata |-> [error |-> "new_name required for rename action"]]
    ELSE LET new_name == params.new_name.value
             Matches(word) == casefold(word) = casefold(character_name)
             matches(text) == Cardinality({i \in 1..Len(text) : Matches(text[i])})
             sub(text) == [i \in 1..Len(text) |->
                              IF Matches(text[i]) THEN new_name ELSE text[i]]
             characters(list) ==
                 IF \E i \in 1..Len(list) : list[i] = character_name
                 THEN [i \in 1..Len(list) |->
                          IF list[i] = character_name THEN new_name
                          ELSE list[i]]
                 ELSE list
         IN  [scenes |-> [i \in 1..Len(stream) |->
                             [stream[i] EXCEPT !.text = sub(@),
                                               !.characters = characters(@)]],
              metadata |->
                  [action |-> "rename_character",
                   old_name |-> character_name,
                   new_name |-> new_name,
                   replacements |->
                       SumSeq([i \in 1..Len(stream) |->
                                  matches(stream[i].text)])]]

\* CharacterFocusedStrategy.apply, the rename action; any other action of
\* the calls drawn here is an unknown one
character_focused_apply(stream, params) ==
    IF ~params.character_name.given
    THEN [scenes |-> stream, metadata |-> [error |-> "character_name required"]]
    ELSE IF params.action = "rename"
    THEN _rename_character(stream, params.character_name.value, params)
    ELSE [scenes |-> stream, metadata |-> [error |-> "Unknown action"]]

\* two of the default tables, one entry each: a plain key and a \b key
default_replacements ==
    [violence |-> <<[pattern |-> "kill", replacement |-> "confront"]>>,
     profanity |-> <<[pattern |-> "\\bshit\\b", replacement |-> "crap"]>>]

\* dict.update: the value of a key that is there is replaced in its place,
\* a new key goes to the end
RECURSIVE dict_update(_, _)
dict_update(dict, items) ==
    IF items = <<>> THEN dict
    ELSE LET item == Head(items)
             at == {i \in 1..Len(dict) : dict[i].pattern = item.pattern}
         IN  dict_update(IF at = {} THEN Append(dict, item)
                         ELSE [i \in 1..Len(dict) |->
                                  IF i \in at THEN item ELSE dict[i]],
                         Tail(items))

\* the words a plain key matches as \b + key + \w*: those it begins
StartsWith(word, key) ==
    \/ casefold(word) = casefold(key)
    \/ word = "killer" /\ key = "kill"

\* a key with \b in it is used as the regular expression it is
pattern_matches(pattern, word) ==
    IF pattern = "\\bshit\\b" THEN casefold(word) = "shit"
    ELSE StartsWith(word, pattern)

\* ContentReductionStrategy._apply_replacements: one pass per entry, in the
\* order of the dict, each on the text the pass before left
RECURSIVE _apply_replacements(_, _)
_apply_replacements(text, replacements) ==
    IF replacements = <<>> THEN [text |-> text, count |-> 0]
    ELSE LET entry == Head(replacements)
             hits == {i \in 1..Len(text) : pattern_matches(entry.pattern, text[i])}
             modified_text == [i \in 1..Len(text) |->
                                  IF i \in hits THEN entry.replacement
                                  ELSE text[i]]
             rest == _apply_replacements(modified_text, Tail(replacements))
         IN  [text |-> rest.text, count |-> Cardinality(hits) + rest.count]

\* replacements = custom_replacements.copy(), then update() with the table
\* of every selected content type
RECURSIVE merged_replacements(_, _)
merged_replacements(replacements, content_types) ==
    IF content_types = <<>> THEN replacements
    ELSE merged_replacements(
             IF Head(content_types) \in DOMAIN default_replacements
             THEN dict_update(replacements,
                              default_replacements[Head(content_types)])
             ELSE replacements,
             Tail(content_types))

\* ContentReductionStrategy.apply
content_reduction_apply(stream, params) ==
    LET content_types == IF params.content_types.given
                         THEN params.content_types.value
                         ELSE <<"violence", "profanity">>
        custom_replacements == IF params.custom_replacements.given
                               THEN params.custom_replacements.value
                               ELSE <<>>
        \* "if scope", "if target_characters": given and not empty
        scope == params.scope.given /\ params.scope.value # {}
        target_characters == /\ params.target_characters.given
                             /\ params.target_characters.value # {}
        replacements == merged_replacements(custom_replacements, content_types)
        Range(list) == {list[i] : i \in 1..Len(list)}
        kept(scene) ==
            \/ scope /\ scene.scene_id \notin params.scope.value
            \/ /\ target_characters
               /\ Range(scene.characters) \cap params.target_characters.value = {}
        applied(scene) == _apply_replacements(scene.text, replacements)
        modified_scenes == [i \in 1..Len(stream) |->
                               IF kept(stream[i]) THEN stream[i]
                               ELSE [stream[i] EXCEPT
                                        !.text = applied(stream[i]).text]]
        \* list.index: the first place of an equal scene
        index(i) == CHOOSE j \in 1..Len(stream) :
                        /\ modified_scenes[j] = modified_scenes[i]
                        /\ \A x \in 1..(j - 1) :
                              modified_scenes[x] # modified_scenes[i]
    IN  [scenes |-> modified_scenes,
         metadata |->
             [content_types_reduced |-> content_types,
              total_replacements |->
                  SumSeq([i \in 1..Len(stream) |->
                             IF kept(stream[i]) THEN 0
                             ELSE applied(stream[i]).count]),
              scenes_modified |->
                  Cardinality({i \in 1..Len(stream) :
                                  modified_scenes[i].text # stream[index(i)].text})]]

\* the scene lists of the calls: dense ids, a text and a characters list
CallTexts ==
    {<<"JOHN", "kill", "John">>, <<"JOHNNY", "killer", "shit">>, <<"word">>}

CallCharacters == {<<>>, <<"JOHN", "MARY">>, <<"John">>}

CallScenes ==
    UNION {{[i \in 1..n |-> [scene_id |-> i - 1, text |-> texts[i],
                             characters |-> lists[i]]] :
               texts \in [1..n -> CallTexts],
               lists \in [1..n -> CallCharacters]} : n \in 0..MaxCallScenes}

RenameParams ==
    [action : {"rename"},
     character_name : {Given("JOHN"), Given("John"), Absent("")},
     new_name : {Given("JACK"), Absent("")}]

ReductionParams ==
    [content_types : {Absent(<<>>), Given(<<"violence">>)},
     custom_replacements :
         {Absent(<<>>),
          Given(<<[pattern |-> "kill", replacement |-> "tickle"]>>),
          Given(<<[pattern |-> "killer", replacement |-> "hero"]>>)},
     scope : {Absent({}), Given({}), Given({1})},
     target_characters : {Absent({}), Given({}), Given({"JOHN"})}]

StrategyCalls ==
    [strategy : {"modify_character"}, stream : CallScenes,
     params : RenameParams, result : {NotApplied}]
    \cup [strategy : {"reduce_content"}, stream : CallScenes,
          params : ReductionParams, result : {NotApplied}]

NoCall ==
    [strategy |-> None, stream |-> <<>>, params |-> [none |-> TRUE],
     result |-> NotApplied]

CharacterFocused ==
    /\ strategy_call.strategy = "modify_character"
    /\ strategy_call.result = NotApplied
    /\ strategy_call' =
           [strategy_call EXCEPT !.result =
               character_focused_apply(strategy_call.stream,
                                       strategy_call.params)]

ContentReduction ==
    /\ strategy_call.strategy = "reduce_content"
    /\ strategy_call.result = NotApplied
    /\ strategy_call' =
           [strategy_call EXCEPT !.result =
               content_reduction_apply(strategy_call.stream,
                                       strategy_call.params)]

NextStrategy == CharacterFocused \/ ContentReduction

(***************************************************************************)
(* Rating advisor: achievability and recommendations                       *)
(* Scores, thresholds and confidences are hundredths, impacts thousandths. *)
(***************************************************************************)
MaxIssueScenes == 2

RATING_ORDER == <<"0+", "6+", "12+", "16+", "18+">>

RATING_THRESHOLDS ==
    ("0+" :> [violence |-> 0, gore |-> 0, sex_act |-> 0, nudity |-> 0,
              profanity |-> 0, drugs |-> 0, child_risk |-> 0])
    @@ ("6+" :> [violence |-> 20, gore |-> 0, sex_act |-> 0, nudity |-> 0,
                 profanity |-> 10, drugs |-> 0, child_risk |-> 10])
    @@ ("12+" :> [violence |-> 40, gore |-> 20, sex_act |-> 0, nudity |-> 20,
                  profanity |-> 30, drugs |-> 20, child_risk |-> 20])
    @@ ("16+" :> [violence |-> 60, gore |-> 40, sex_act |-> 30, nudity |-> 50,
                  profanity |-> 60, drugs |-> 50, child_risk |-> 40])
    @@ ("18+" :> [violence |-> 100, gore |-> 100, sex_act |-> 100,
                  nudity |-> 100, profanity |-> 100, drugs |-> 100,
                  child_risk |-> 100])

\* the order of the keys of a thresholds dict
DimOrder ==
    <<"violence", "gore", "sex_act", "nudity", "profanity", "drugs",
      "child_risk">>

\* RATING_ORDER.index(rating)
rating_index(rating) == CHOOSE i \in 1..Len(RATING_ORDER) : RATING_ORDER[i] = rating

\* the excess of every dimension over its threshold, 0 where there is none
excesses(scores, thresholds) ==
    [d \in Dims |-> IF scores[d] > thresholds[d]
                    THEN scores[d] - thresholds[d] ELSE 0]

\* the cascade with >= in place of > on the maximum violation
_check_achievability_inclusive(current, target, scores, thresholds) ==
    LET excess == excesses(scores, thresholds)
        violations == {d \in Dims : excess[d] > 0}
        total == SumSeq([i \in 1..Len(DimOrder) |-> excess[DimOrder[i]]])
        max_violation == Max({excess[d] : d \in violations})
    IN  IF rating_index(target) > rating_index(current)
        THEN [is_achievable |-> FALSE, confidence |-> 0]
        ELSE IF rating_index(target) = rating_index(current)
        THEN [is_achievable |-> TRUE, confidence |-> 100]
        ELSE IF violations = {}
        THEN [is_achievable |-> TRUE, confidence |-> 100]
        ELSE [is_achievable |-> TRUE,
              confidence |->
                  IF max_violation >= 50 THEN 30
                  ELSE IF max_violation >= 30 THEN 50
                  ELSE IF total > 20 * Cardinality(violations) THEN 70
                  ELSE 90]

\* RatingAdvisor._check_achievability; avg_violation > 0.2 is
\* total > 0.2 * the number of violations
_check_achievability(current, target, scores, thresholds) ==
    LET excess == excesses(scores, thresholds)
        violations == {d \in Dims : excess[d] > 0}
        total == SumSeq([i \in 1..Len(DimOrder) |-> excess[DimOrder[i]]])
        max_violation == Max({excess[d] : d \in violations})
    IN  IF rating_index(target) > rating_index(current)
        THEN [is_achievable |-> FALSE, confidence |-> 0]
        ELSE IF rating_index(target) = rating_index(current)
        THEN [is_achievable |-> TRUE, confidence |-> 100]
        ELSE IF violations = {}
        THEN [is_achievable |-> TRUE, confidence |-> 100]
        ELSE [is_achievable |-> TRUE,
              confidence |->
                  IF max_violation > 50 THEN 30
                  ELSE IF max_violation > 30 THEN 50
                  ELSE IF total > 20 * Cardinality(violations) THEN 70
                  ELSE 90]

\* list.sort(key=..., reverse=True), keys[i] the key of list[i]: by key,
\* the larger first, equal keys in the order they had
SortedDesc(list, keys) ==
    LET place(i) == Cardinality({j \in 1..Len(list) : keys[j] > keys[i]})
                    + Cardinality({j \in 1..(i - 1) : keys[j] = keys[i]})
                    + 1
    IN  [p \in 1..Len(list) |-> list[CHOOSE i \in 1..Len(list) : place(i) = p]]

\* the first n elements of a list
Take(list, n) == SubSeq(list, 1, Min(n, Len(list)))

RECURSIVE Flatten(_)
Flatten(lists) ==
    IF lists = <<>> THEN <<>> ELSE Head(lists) \o Flatten(Tail(lists))

SumIssues(issues) == SumSeq([i \in 1..Len(DimOrder) |-> issues[DimOrder[i]]])

\* RatingAdvisor._identify_problematic_scenes: the scenes with an excess,
\* severity from the sum of the excesses, sorted by that sum
_identify_problematic_scenes(all_scenes, thresholds) ==
    LET issues(scene) == excesses(scene, thresholds)
        severity(score) == IF score > 150 THEN "critical"
                           ELSE IF score > 80 THEN "high"
                           ELSE IF score > 40 THEN "medium"
                           ELSE "low"
        problematic ==
            [i \in 1..Len(all_scenes) |->
                [scene_id |-> all_scenes[i].scene_id,
                 scene_number |-> all_scenes[i].scene_number,
                 issues |-> issues(all_scenes[i]),
                 severity |-> severity(SumIssues(issues(all_scenes[i])))]]
        with_issues == SelectSeq(problematic,
                                 LAMBDA issue : SumIssues(issue.issues) > 0)
    IN  SortedDesc(with_issues,
                   [i \in 1..Len(with_issues) |->
                       SumIssues(with_issues[i].issues)])

\* RatingAdvisor._analyze_scene_content for a content given by the keywords
\* it holds; the contents drawn hold keywords of violence and gore only
_analyze_scene_content(content, dimension, severity) ==
    LET recs ==
            IF dimension = "violence" /\ "murder" \in content
            THEN IF severity > 50
                 THEN <<[type |-> "rewrite_scene", impact |-> 850,
                         changes |-> "Convert physical fight to heated dialogue",
                         difficulty |-> "medium"]>>
                 ELSE <<[type |-> "reduce_content", impact |-> 600,
                         changes |-> "Make violence implied rather than explicit",
                         difficulty |-> "easy"]>>
            ELSE IF dimension = "gore" /\ "blood" \in content
            THEN <<[type |-> "modify_dialogue", impact |-> 750,
                    changes |-> "Cut to black or use off-screen action",
                    difficulty |-> "easy"]>>
            ELSE <<>>
    IN  IF severity > 70 /\ recs = <<>>
        THEN <<[type |-> "remove_scene", impact |-> 950,
                changes |-> "High severity issue with no easy fix",
                difficulty |-> "easy"]>>
        ELSE recs

\* the issues of a scene as (dimension, excess) pairs, the larger first
sorted_issues(issues) ==
    LET items == SelectSeq([i \in 1..Len(DimOrder) |->
                               [dim |-> DimOrder[i], val |-> issues[DimOrder[i]]]],
                           LAMBDA item : item.val > 0)
    IN  SortedDesc(items, [i \in 1..Len(items) |-> items[i].val])

\* RatingAdvisor._generate_smart_recommendations
_generate_smart_recommendations(problem_scenes, all_scenes) ==
    LET data(issue) == {i \in 1..Len(all_scenes) :
                           all_scenes[i].scene_number = issue.scene_number}
        first(issue) == all_scenes[CHOOSE i \in data(issue) :
                                       \A j \in data(issue) : i <= j].content
        for_issue(issue, item) ==
            LET specific_recs == Take(_analyze_scene_content(first(issue),
                                                             item.dim, item.val), 2)
            IN  [r \in 1..Len(specific_recs) |->
                    [action_type |-> specific_recs[r].type,
                     scene_id |-> issue.scene_id,
                     impact_score |-> specific_recs[r].impact,
                     category |-> item.dim,
                     specific_changes |-> specific_recs[r].changes,
                     difficulty |-> specific_recs[r].difficulty]]
        for_scene(issue) ==
            IF data(issue) = {} THEN <<>>
            ELSE LET items == sorted_issues(issue.issues)
                 IN  Flatten([k \in 1..Len(items) |-> for_issue(issue, items[k])])
        top == Take(problem_scenes, 15)
    IN  Take(Flatten([i \in 1..Len(top) |-> for_scene(top[i])]), 20)

\* the action of a critical or high scene, from its largest issue
scene_action(issue) ==
    LET max_issue == Head(sorted_issues(issue.issues))
        issue_val == max_issue.val
    IN  IF issue_val > 60
        THEN [action_type |-> "remove_scene", scene_id |-> issue.scene_id,
              impact_score |-> Min(issue_val * 12, 1000),
              category |-> max_issue.dim,
              specific_changes |-> "Remove entire scene",
              difficulty |-> "easy"]
        ELSE IF issue_val > 30
        THEN [action_type |-> "rewrite_scene", scene_id |-> issue.scene_id,
              impact_score |-> issue_val * 9,
              category |-> max_issue.dim,
              specific_changes |-> "Rewrite scene to reduce problematic content",
              difficulty |-> "hard"]
        ELSE [action_type |-> "reduce_content", scene_id |-> issue.scene_id,
              impact_score |-> issue_val * 7,
              category |-> max_issue.dim,
              specific_changes |-> "Remove or tone down specific elements",
              difficulty |-> "medium"]

Impact(action) == action.impact_score

\* the recommendations left in the order they were emitted
_generate_recommendations_unsorted(problem_scenes, all_scenes) ==
    LET critical_scenes ==
            Take(SelectSeq(problem_scenes,
                           LAMBDA issue : issue.severity \in {"critical", "high"}),
                 10)
    IN  _generate_smart_recommendations(problem_scenes, all_scenes)
        \o [i \in 1..Len(critical_scenes) |-> scene_action(critical_scenes[i])]

\* RatingAdvisor._generate_recommendations
_generate_recommendations(problem_scenes, all_scenes) ==
    LET critical_scenes ==
            Take(SelectSeq(problem_scenes,
                           LAMBDA issue : issue.severity \in {"critical", "high"}),
                 10)
        actions ==
            _generate_smart_recommendations(problem_scenes, all_scenes)
            \o [i \in 1..Len(critical_scenes) |-> scene_action(critical_scenes[i])]
    IN  SortedDesc(actions, [i \in 1..Len(actions) |-> Impact(actions[i])])

\* the score vectors of the achievability calls
AdvisorScores ==
    [violence : {0, 20, 30, 45, 50, 51, 70, 71, 100},
     gore : {0, 10, 30, 60}, sex_act : {0, 20}, nudity : {0},
     profanity : {0, 35}, drugs : {0}, child_risk : {0}]

\* the scored scenes of the recommendation calls
AdvisorScenes ==
    UNION {{[i \in 1..n |->
                [scene_id |-> i - 1, scene_number |-> i,
                 content |-> contents[i],
                 violence |-> points[i].violence, gore |-> points[i].gore,
                 sex_act |-> 0, nudity |-> 0,
                 profanity |-> points[i].profanity, drugs |-> 0,
                 child_risk |-> 0]] :
               contents \in [1..n -> {{}, {"murder", "blood"}}],
               points \in [1..n -> [violence : {0, 50, 80, 100},
                                    gore : {0, 30, 61},
                                    profanity : {0, 40}]]} :
           n \in 0..MaxIssueScenes}

NoAdvice == [none |-> TRUE]

AdvisorCalls ==
    [step : {"achievability"}, current : {"0+", "6+", "12+", "16+", "18+"},
     target : {"0+", "6+", "12+", "16+", "18+"}, scores : AdvisorScores,
     result : {NoAdvice}]
    \cup [step : {"recommendations"}, target : {"6+", "12+"},
          all_scenes : AdvisorScenes, result : {NoAdvice}]

NoAdvisorCall == [step |-> None, result |-> NoAdvice]

CheckAchievability ==
    /\ advisor_call.step = "achievability"
    /\ advisor_call.result = NoAdvice
    /\ advisor_call' =
           [advisor_call EXCEPT !.result =
               _check_achievability(advisor_call.current, advisor_call.target,
                                    advisor_call.scores,
                                    RATING_THRESHOLDS[advisor_call.target])]

\* analyze's steps from the scored scenes to the recommended actions
GenerateRecommendations ==
    /\ advisor_call.step = "recommendations"
    /\ advisor_call.result = NoAdvice
    /\ LET problematic_scenes ==
               _identify_problematic_scenes(advisor_call.all_scenes,
                                            RATING_THRESHOLDS[advisor_call.target])
       IN  advisor_call' =
               [advisor_call EXCEPT !.result =
                   [problematic_scenes |-> problematic_scenes,
                    recommended_actions |->
                        _generate_recommendations(problematic_scenes,
                                                  advisor_call.all_scenes)]]

NextAdvisor == CheckAchievability \/ GenerateRecommendations

(***************************************************************************)
(* Version store: create_version calls on concurrent sessions              *)
(* script, versions and nextId are the committed rows; a statement reads   *)
(* what is committed when it runs, and a session keeps the objects it has  *)
(* loaded. The flush and the commit of db.commit() are one step.           *)
(***************************************************************************)
MaxSessions == 2

NewSession(make_current) ==
    [pc |-> "select_script", make_current |-> make_current,
     script |-> NewScript, number |-> 0, current |-> {}]

\* result = await db.execute(select(Script)...): the script row is loaded
SelectScript(c) ==
    /\ sessions[c].pc = "select_script"
    /\ LET row == get_script_row(script, ScriptId)
       IN  sessions' = [sessions EXCEPT ![c].script = row.row,
                                        ![c].pc = "select_latest"]
    /\ UNCHANGED <<script, versions, nextId>>

\* the query for the latest version, scalar_one_or_none() and
\* new_version_number; the scenes are read in the same step
SelectLatest(c) ==
    /\ sessions[c].pc = "select_latest"
    /\ LET latest == scalar_one_or_none(versions_of(versions, ScriptId))
       IN  sessions' =
               IF latest.tag = "MultipleResultsFound"
               THEN [sessions EXCEPT ![c].pc = "raised"]
               ELSE [sessions EXCEPT
                        ![c].number = new_version_number(latest, versions),
                        ![c].pc = IF sessions[c].make_current
                                  THEN "select_current" ELSE "commit"]
    /\ UNCHANGED <<script, versions, nextId>>

\* make_current: the current versions are loaded and their is_current is
\* set to False in the session; script.current_version is set there too
SelectCurrent(c) ==
    /\ sessions[c].pc = "select_current"
    /\ sessions' =
           [sessions EXCEPT
               ![c].current = Ids({v \in versions_of(versions, ScriptId) :
                                      v.is_current}),
               ![c].pc = "commit"]
    /\ UNCHANGED <<script, versions, nextId>>

\* db.add(new_version); await db.commit(): the session's changes are
\* written - an UPDATE for every attribute it changed - with the new row
Commit(c) ==
    /\ sessions[c].pc = "commit"
    /\ LET session == sessions[c]
       IN  /\ versions' =
                  {IF v.id \in session.current
                   THEN [v EXCEPT !.is_current = FALSE] ELSE v : v \in versions}
                  \cup {NewVersion(nextId, session.script, session.number,
                                   ManualDescription, session.make_current)}
           /\ script' =
                  IF /\ session.make_current
                     /\ session.number # session.script.current_version
                  THEN [script EXCEPT !.current_version = session.number]
                  ELSE script
    /\ nextId' = nextId + 1
    /\ sessions' = [sessions EXCEPT ![c].pc = "done"]

NextSessions ==
    \E c \in DOMAIN sessions :
        \/ SelectScript(c)
        \/ SelectLatest(c)
        \/ SelectCurrent(c)
        \/ Commit(c)

(***************************************************************************)
(* Specifications                                                          *)
(***************************************************************************)
\* one stored script without versions, ratings or rating requests
Init ==
    /\ script = NewScript
    /\ versions = {}
    /\ nextId = 1
    /\ assigned = {}
    /\ lastOp = NoOp
    /\ restorePc = Idle
    /\ tasks = <<>>
    /\ scenes = <<>>
    /\ rating_logs = <<>>
    /\ committed = <<>>
    /\ lastEnqueue = NoEnqueue
    /\ client = NewCall(0)
    /\ agg = ZeroScores
    /\ rated = NotRated
    /\ lower = NoLower
    /\ scene_counts = NoCounts
    /\ features = NoFeatures
    /\ normalized = NoScores
    /\ request = NoRequest
    /\ response = NoResponse
    /\ removal = NoRemoval
    /\ strategy_call = NoCall
    /\ advisor_call = NoAdvisorCall
    /\ sessions = <<>>

\* the same, with a rate_script call of a client with any max_retries
InitClient ==
    /\ script = NewScript
    /\ versions = {}
    /\ nextId = 1
    /\ assigned = {}
    /\ lastOp = NoOp
    /\ restorePc = Idle
    /\ tasks = <<>>
    /\ scenes = <<>>
    /\ rating_logs = <<>>
    /\ committed = <<>>
    /\ lastEnqueue = NoEnqueue
    /\ \E m \in 0..MaxRetries : client = NewCall(m)
    /\ agg = ZeroScores
    /\ rated = NotRated
    /\ lower = NoLower
    /\ scene_counts = NoCounts
    /\ features = NoFeatures
    /\ normalized = NoScores
    /\ request = NoRequest
    /\ response = NoResponse
    /\ removal = NoRemoval
    /\ strategy_call = NoCall
    /\ advisor_call = NoAdvisorCall
    /\ sessions = <<>>

\* any aggregated score vector of the grid, not yet rated
InitCascade ==
    /\ script = NewScript
    /\ versions = {}
    /\ nextId = 1
    /\ assigned = {}
    /\ lastOp = NoOp
    /\ restorePc = Idle
    /\ tasks = <<>>
    /\ scenes = <<>>
    /\ rating_logs = <<>>
    /\ committed = <<>>
    /\ lastEnqueue = NoEnqueue
    /\ client = NewCall(0)
    /\ agg \in Vectors
    /\ rated = NotRated
    /\ lower = NoLower
    /\ scene_counts = NoCounts
    /\ features = NoFeatures
    /\ normalized = NoScores
    /\ request = NoRequest
    /\ response = NoResponse
    /\ removal = NoRemoval
    /\ strategy_call = NoCall
    /\ advisor_call = NoAdvisorCall
    /\ sessions = <<>>

\* any scene, its features not yet extracted
InitNormalize ==
    /\ script = NewScript
    /\ versions = {}
    /\ nextId = 1
    /\ assigned = {}
    /\ lastOp = NoOp
    /\ restorePc = Idle
    /\ tasks = <<>>
    /\ scenes = <<>>
    /\ rating_logs = <<>>
    /\ committed = <<>>
    /\ lastEnqueue = NoEnqueue
    /\ client = NewCall(0)
    /\ agg = ZeroScores
    /\ rated = NotRated
    /\ lower = NoLower
    /\ scene_counts \in SceneCounts
    /\ features = NoFeatures
    /\ normalized = NoScores
    /\ request = NoRequest
    /\ response = NoResponse
    /\ removal = NoRemoval
    /\ strategy_call = NoCall
    /\ advisor_call = NoAdvisorCall
    /\ sessions = <<>>

\* a what-if request with any script text and no modification
InitRoundTrip ==
    /\ script = NewScript
    /\ versions = {}
    /\ nextId = 1
    /\ assigned = {}
    /\ lastOp = NoOp
    /\ restorePc = Idle
    /\ tasks = <<>>
    /\ scenes = <<>>
    /\ rating_logs = <<>>
    /\ committed = <<>>
    /\ lastEnqueue = NoEnqueue
    /\ client = NewCall(0)
    /\ agg = ZeroScores
    /\ rated = NotRated
    /\ lower = NoLower
    /\ scene_counts = NoCounts
    /\ features = NoFeatures
    /\ normalized = NoScores
    /\ request \in [script_text : Texts(MaxTextLen), modifications : {<<>>},
                  generator : {"unconfigured"}]
    /\ response = NoResponse
    /\ removal = NoRemoval
    /\ strategy_call = NoCall
    /\ advisor_call = NoAdvisorCall
    /\ sessions = <<>>

\* a what-if request for a sample script with any list of modifications
InitWhatIf ==
    /\ script = NewScript
    /\ versions = {}
    /\ nextId = 1
    /\ assigned = {}
    /\ lastOp = NoOp
    /\ restorePc = Idle
    /\ tasks = <<>>
    /\ scenes = <<>>
    /\ rating_logs = <<>>
    /\ committed = <<>>
    /\ lastEnqueue = NoEnqueue
    /\ client = NewCall(0)
    /\ agg = ZeroScores
    /\ rated = NotRated
    /\ lower = NoLower
    /\ scene_counts = NoCounts
    /\ features = NoFeatures
    /\ normalized = NoScores
    /\ request \in [script_text : SampleScripts, modifications : ModLists,
                  generator : Generators]
    /\ response = NoResponse
    /\ removal = NoRemoval
    /\ strategy_call = NoCall
    /\ advisor_call = NoAdvisorCall
    /\ sessions = <<>>

\* a call of the scene-removal strategy with any scene list and params
InitRemoval ==
    /\ script = NewScript
    /\ versions = {}
    /\ nextId = 1
    /\ assigned = {}
    /\ lastOp = NoOp
    /\ restorePc = Idle
    /\ tasks = <<>>
    /\ scenes = <<>>
    /\ rating_logs = <<>>
    /\ committed = <<>>
    /\ lastEnqueue = NoEnqueue
    /\ client = NewCall(0)
    /\ agg = ZeroScores
    /\ rated = NotRated
    /\ lower = NoLower
    /\ scene_counts = NoCounts
    /\ features = NoFeatures
    /\ normalized = NoScores
    /\ request = NoRequest
    /\ response = NoResponse
    /\ removal \in [scenes : SceneLists, params : RemovalParams,
                  result : {NotApplied}]
    /\ strategy_call = NoCall
    /\ advisor_call = NoAdvisorCall
    /\ sessions = <<>>

\* a call of the rename or the content-reduction strategy, not yet made
InitStrategy ==
    /\ script = NewScript
    /\ versions = {}
    /\ nextId = 1
    /\ assigned = {}
    /\ lastOp = NoOp
    /\ restorePc = Idle
    /\ tasks = <<>>
    /\ scenes = <<>>
    /\ rating_logs = <<>>
    /\ committed = <<>>
    /\ lastEnqueue = NoEnqueue
    /\ client = NewCall(0)
    /\ agg = ZeroScores
    /\ rated = NotRated
    /\ lower = NoLower
    /\ scene_counts = NoCounts
    /\ features = NoFeatures
    /\ normalized = NoScores
    /\ request = NoRequest
    /\ response = NoResponse
    /\ removal = NoRemoval
    /\ strategy_call \in StrategyCalls
    /\ advisor_call = NoAdvisorCall
    /\ sessions = <<>>

\* a call of an advisor step, not yet made
InitAdvisor ==
    /\ script = NewScript
    /\ versions = {}
    /\ nextId = 1
    /\ assigned = {}
    /\ lastOp = NoOp
    /\ restorePc = Idle
    /\ tasks = <<>>
    /\ scenes = <<>>
    /\ rating_logs = <<>>
    /\ committed = <<>>
    /\ lastEnqueue = NoEnqueue
    /\ client = NewCall(0)
    /\ agg = ZeroScores
    /\ rated = NotRated
    /\ lower = NoLower
    /\ scene_counts = NoCounts
    /\ features = NoFeatures
    /\ normalized = NoScores
    /\ request = NoRequest
    /\ response = NoResponse
    /\ removal = NoRemoval
    /\ strategy_call = NoCall
    /\ advisor_call \in AdvisorCalls
    /\ sessions = <<>>

\* no version or one current version stored, and create_version calls on sessions of
\* their own, none started yet
InitSessions ==
    /\ script = NewScript
    /\ versions \in {{}, {NewVersion(1, NewScript, 1, ManualDescription, TRUE)}}
    /\ nextId = IF versions = {} THEN 1 ELSE 2
    /\ assigned = {}
    /\ lastOp = NoOp
    /\ restorePc = Idle
    /\ tasks = <<>>
    /\ scenes = <<>>
    /\ rating_logs = <<>>
    /\ committed = <<>>
    /\ lastEnqueue = NoEnqueue
    /\ client = NewCall(0)
    /\ agg = ZeroScores
    /\ rated = NotRated
    /\ lower = NoLower
    /\ scene_counts = NoCounts
    /\ features = NoFeatures
    /\ normalized = NoScores
    /\ request = NoRequest
    /\ response = NoResponse
    /\ removal = NoRemoval
    /\ strategy_call = NoCall
    /\ advisor_call = NoAdvisorCall
    /\ sessions \in [1..MaxSessions -> {NewSession(TRUE), NewSession(FALSE)}]

\* the version store
Spec ==
    Init /\ [][/\ NextVersions
               /\ UNCHANGED vars_rating
               /\ UNCHANGED client
               /\ UNCHANGED vars_pipeline
               /\ UNCHANGED vars_whatif
               /\ UNCHANGED vars_strategy
               /\ UNCHANGED vars_advisor
               /\ UNCHANGED vars_sessions]_vars

\* rating requests, the worker and process_rating
SpecRating ==
    Init /\ [][/\ NextRating
               /\ UNCHANGED <<versions, nextId, assigned, lastOp, restorePc>>
               /\ UNCHANGED client
               /\ UNCHANGED vars_pipeline
               /\ UNCHANGED vars_whatif
               /\ UNCHANGED vars_strategy
               /\ UNCHANGED vars_advisor
               /\ UNCHANGED vars_sessions]_vars

\* one rate_script call of the ML client
SpecClient ==
    InitClient /\ [][/\ NextClient
                     /\ UNCHANGED vars_versions
                     /\ UNCHANGED vars_rating
                     /\ UNCHANGED vars_pipeline
                     /\ UNCHANGED vars_whatif
                     /\ UNCHANGED vars_strategy
                     /\ UNCHANGED vars_advisor
                     /\ UNCHANGED vars_sessions]_vars

\* the rating mapper on the score grid
SpecCascade ==
    InitCascade /\ [][/\ NextCascade
                      /\ UNCHANGED vars_versions
                      /\ UNCHANGED vars_rating
                      /\ UNCHANGED client
                      /\ UNCHANGED <<scene_counts, features, normalized>>
                      /\ UNCHANGED vars_whatif
                      /\ UNCHANGED vars_strategy
                      /\ UNCHANGED vars_advisor
                      /\ UNCHANGED vars_sessions]_vars

\* feature extraction and normalization of one scene
SpecNormalize ==
    InitNormalize /\ [][/\ NextNormalize
                        /\ UNCHANGED vars_versions
                        /\ UNCHANGED vars_rating
                        /\ UNCHANGED client
                        /\ UNCHANGED <<agg, rated, lower>>
                        /\ UNCHANGED vars_whatif
                        /\ UNCHANGED vars_strategy
                        /\ UNCHANGED vars_advisor
                        /\ UNCHANGED vars_sessions]_vars

\* the what-if path with the empty modification list
SpecRoundTrip ==
    InitRoundTrip /\ [][/\ NextWhatIf
                        /\ UNCHANGED vars_versions
                        /\ UNCHANGED vars_rating
                        /\ UNCHANGED client
                        /\ UNCHANGED vars_pipeline
                        /\ UNCHANGED vars_strategy
                        /\ UNCHANGED vars_advisor
                        /\ UNCHANGED vars_sessions]_vars

\* the structured what-if engine
SpecWhatIf ==
    InitWhatIf /\ [][/\ NextWhatIf
                     /\ UNCHANGED vars_versions
                     /\ UNCHANGED vars_rating
                     /\ UNCHANGED client
                     /\ UNCHANGED vars_pipeline
                     /\ UNCHANGED vars_strategy
                     /\ UNCHANGED vars_advisor
                     /\ UNCHANGED vars_sessions]_vars

\* the scene-removal strategy
SpecRemoval ==
    InitRemoval /\ [][/\ NextRemoval
                      /\ UNCHANGED vars_versions
                      /\ UNCHANGED vars_rating
                      /\ UNCHANGED client
                      /\ UNCHANGED vars_pipeline
                      /\ UNCHANGED vars_strategy
                      /\ UNCHANGED vars_advisor
                      /\ UNCHANGED vars_sessions]_vars

\* the character rename and content-reduction strategies
SpecStrategy ==
    InitStrategy /\ [][/\ NextStrategy
                       /\ UNCHANGED vars_versions
                       /\ UNCHANGED vars_rating
                       /\ UNCHANGED client
                       /\ UNCHANGED vars_pipeline
                       /\ UNCHANGED vars_whatif
                       /\ UNCHANGED vars_advisor
                       /\ UNCHANGED vars_sessions]_vars

\* the advisor's achievability check and recommendations
SpecAdvisor ==
    InitAdvisor /\ [][/\ NextAdvisor
                      /\ UNCHANGED vars_versions
                      /\ UNCHANGED vars_rating
                      /\ UNCHANGED client
                      /\ UNCHANGED vars_pipeline
                      /\ UNCHANGED vars_whatif
                      /\ UNCHANGED vars_strategy
                      /\ UNCHANGED vars_sessions]_vars

\* create_version calls that interleave at their awaits
SpecSessions ==
    InitSessions /\ [][/\ NextSessions
                       /\ UNCHANGED <<assigned, lastOp, restorePc>>
                       /\ UNCHANGED vars_rating
                       /\ UNCHANGED client
                       /\ UNCHANGED vars_pipeline
                       /\ UNCHANGED vars_whatif
                       /\ UNCHANGED vars_strategy
                       /\ UNCHANGED vars_advisor]_vars

(***************************************************************************)
(* Version store: properties                                               *)
(***************************************************************************)
Current(vs) == {v \in vs : v.is_current}

\* the version rows a call was asked about, in the state it started from
Target(op) == {v \in op.preVersions : v.script_id = op.script_id
                                      /\ v.version_number = op.arg}

\* C1: in every state reached by create_version, restore_version and
\* delete_version calls at most one version is current, and when one is,
\* script.current_version is its version_number
C1_AtMostOneCurrent ==
    /\ Cardinality(Current(versions)) <= 1
    /\ \A v \in Current(versions) : script.current_version = v.version_number

\* a version that was current lost the flag to a newer current version
C1_Witness ==
    /\ Cardinality(versions) = 2
    /\ \E v \in versions : v.is_current /\ v.version_number = 2
    /\ \E v \in versions : ~v.is_current /\ v.version_number = 1
    /\ lastOp.op = "create" /\ lastOp.status = 200
    /\ Current(lastOp.preVersions) # {}

\* C3 (as claimed): after restore_version(s, v) on an existing version v,
\* whatever the number of stored versions, the script's content is v's
\* content and a backup version written by the call holds the content the
\* script had before
C3_RestoreRoundTrip ==
    (lastOp.op = "restore" /\ Target(lastOp) # {}) =>
        /\ \A v \in Target(lastOp) : script.content = v.content
        /\ \E b \in versions :
              /\ b.id \notin Ids(lastOp.preVersions)
              /\ b.change_description = BackupDescription(lastOp.arg)
              /\ b.content = lastOp.preScript.content

\* C5: delete_version on the current version answers 400 and leaves the
\* versions, their flags and the script as they were
C5_DeleteCurrentRefused ==
    (lastOp.op = "delete" /\ \E v \in Target(lastOp) : v.is_current) =>
        /\ lastOp.status = 400
        /\ versions = lastOp.preVersions
        /\ script = lastOp.preScript

C5_Witness ==
    /\ lastOp.op = "delete"
    /\ lastOp.status = 400
    /\ Cardinality(versions) = 2

\* C6 (as claimed): create_version on the existing script succeeds for any
\* number of stored versions and numbers the new version 1, or
\* max(existing) + 1
C6_CreateNumbersNext ==
    (lastOp.op = "create" /\ lastOp.script_id = ScriptId) =>
        /\ lastOp.status = 200
        /\ lastOp.new = IF lastOp.preVersions = {} THEN 1
                        ELSE Max(Nums(lastOp.preVersions)) + 1

\* C7 (as claimed): every newly created version gets a number greater than
\* the number of every version created before it, deleted ones included
C7_NeverReused ==
    [][\A v \in versions' :
          v.id \notin Ids(versions) =>
              \A m \in assigned : v.version_number > m]_vars

\* C7 (amended): every newly created version gets a number greater than
\* the number of every version stored when it is created, and the stored
\* versions of a script have distinct numbers
C7_GreaterThanStored ==
    /\ [](Cardinality(Nums(versions)) = Cardinality(versions))
    /\ [][\A v \in versions' :
            v.id \notin Ids(versions) =>
                \A w \in versions : v.version_number > w.version_number
         ]_vars

\* a version was created after an older one had been deleted
C7_Witness ==
    /\ lastOp.op = "create" /\ lastOp.status = 200
    /\ lastOp.preVersions # {}
    /\ Cardinality(assigned) > Cardinality(versions)

\* C8: after a successful create_version with make_current, or a
\* successful restore_version, the designated version is the only current
\* one and script.current_version is its number; the backup version of a
\* restore is stored and is not current
C8_DesignatedIsCurrent ==
    /\ (lastOp.op = "create" /\ lastOp.status = 200 /\ lastOp.arg = TRUE) =>
          /\ Nums(Current(versions)) = {lastOp.new}
          /\ Cardinality(Current(versions)) = 1
          /\ script.current_version = lastOp.new
    /\ (lastOp.op = "restore" /\ lastOp.status = 200) =>
          /\ Nums(Current(versions)) = {lastOp.arg}
          /\ Cardinality(Current(versions)) = 1
          /\ script.current_version = lastOp.arg
          /\ \E b \in versions : /\ b.version_number = lastOp.new
                                 /\ b.id \notin Ids(lastOp.preVersions)
                                 /\ ~b.is_current

\* a restore made a version current that was not current before
C8_Witness ==
    /\ lastOp.op = "restore" /\ lastOp.status = 200
    /\ \E v \in Target(lastOp) : ~v.is_current
    /\ lastOp.preScript.current_version # lastOp.arg

\* C9 (as claimed): no committed state has the backup version of a restore
\* stored while the script's fields and the current flags are still the
\* ones from before the restore
C9_RestoreOneTransaction ==
    ~ /\ lastOp.op \in {"restore_backup", "restore_aborted"}
      /\ script = lastOp.preScript
      /\ \E b \in versions :
            /\ b.version_number = lastOp.new
            /\ b.change_description = BackupDescription(lastOp.arg)
            /\ versions \ {b} = lastOp.preVersions

(***************************************************************************)
(* Rating: properties                                                      *)
(***************************************************************************)
\* the committed state after the first k completions of `committed` have
\* run process_rating one after the other, each loading the script only
\* once the one before it has committed
RECURSIVE SerialDb(_)
SerialDb(k) ==
    IF k = 0
    THEN [script |-> NewScript, scenes |-> <<>>, rating_logs |-> <<>>]
    ELSE LET prev == SerialDb(k - 1)
             t == tasks[committed[k]]
         IN  commit_rating(prev, Loaded(prev.script, prev.scenes),
                           t.script_id, t.result)

\* C2 (as claimed): at most one active (queued or in_progress) job exists
\* per script, and enqueue for a script with an active job returns that
\* job's id
C2_SingleFlight ==
    /\ \A sid \in ScriptIds : Cardinality(ActiveJobs(tasks, sid)) <= 1
    /\ (lastEnqueue.status = 200 /\ lastEnqueue.active # {}) =>
           lastEnqueue.job_id \in lastEnqueue.active

C10_StatusErrorSurfaced ==
    \A i \in DOMAIN client.trace :
        client.trace[i].kind = "http_status" =>
            /\ client.pc = "raised"
            /\ client.error = [kind |-> "MLServiceError",
                               status |-> client.trace[i].status]
            /\ i = Len(client.trace)
            /\ Len(client.sleeps) = i - 1

\* a status error on the second attempt, with retries remaining
C10_Witness ==
    /\ Len(client.trace) = 2
    /\ client.trace[1].kind = "timeout"
    /\ client.trace[2].kind = "http_status"
    /\ client.attempt + 1 < client.max_retries
    /\ client.pc = "raised"

\* every attempt the call has made ended in an error of kind k
AllFailedWith(k) ==
    /\ client.max_retries > 0
    /\ Len(client.trace) = client.max_retries
    /\ \A i \in DOMAIN client.trace : client.trace[i].kind \in k

\* C11: when every one of the max_retries attempts failed transiently the
\* call has not returned a result and, once it has ended, it has raised
\* the timeout error if the attempts timed out and the service error
\* without an HTTP status if they failed in the transport.
C11_TransientExhaustionRaises ==
    /\ AllFailedWith({"timeout", "request_error"}) =>
           /\ client.pc \in {"calling", "raised"}
           /\ client.pc = "calling" => client.attempt = client.max_retries
           /\ Len(client.sleeps) = client.max_retries - 1
    /\ AllFailedWith({"timeout"}) /\ client.pc = "raised" =>
           client.error = [kind |-> "MLServiceTimeoutError", status |-> 0]
    /\ AllFailedWith({"request_error"}) /\ client.pc = "raised" =>
           client.error = [kind |-> "MLServiceError", status |-> 0]

C11_Witness ==
    /\ AllFailedWith({"timeout"})
    /\ client.max_retries >= 2
    /\ client.pc = "raised"
    /\ client.error.kind = "MLServiceTimeoutError"

JobStatuses ==
    {"queued", "deferred", "in_progress", "completed", "failed", "not_found"}

\* C12: the status of a job whose processing raised is failed, with an
\* error and without a result, and every status reported for a job id is
\* one of queued, deferred, in_progress, completed, failed, not_found.
C12_FailedJobReportedFailed ==
    /\ \A j \in 1..(MaxTasks + 1) :
          get_job_status(tasks, j).status \in JobStatuses
    /\ \A j \in DOMAIN tasks :
          (tasks[j].kind = "job" /\ tasks[j].status = "failed") =>
              /\ get_job_status(tasks, j).status = "failed"
              /\ get_job_status(tasks, j).error # None
              /\ get_job_status(tasks, j).result = None

\* the task became failed, or complete, in this step
Becomes(i, status) ==
    /\ i \in DOMAIN tasks'
    /\ tasks'[i].status = status
    /\ i \in DOMAIN tasks => tasks[i].status # status

RuleMatches(k, a) ==
    CASE k = 1 -> a.sex_act >= 80 \/ a.gore >= 80
      [] k = 2 -> a.child_risk > 50 /\ (a.sex_act >= 50 \/ a.violence >= 50)
      [] k = 3 -> a.violence >= 40 \/ a.gore >= 40
      [] k = 4 -> a.profanity >= 50 \/ a.drugs >= 40 \/ a.nudity >= 30
      [] k = 5 -> a.violence >= 30

RuleRating == <<"18+", "18+", "16+", "12+", "12+">>

RuleTag == <<"explicit sexual or violent content",
             "violence or sexual content involving minors",
             "explicit violence or murder",
             "moderate language, alcohol/tobacco, mild nudity",
             "moderate violence or threats">>

FirstMatch(a) ==
    LET ks == {k \in 1..5 : RuleMatches(k, a)}
    IN  IF ks = {} THEN 0 ELSE CHOOSE k \in ks : \A j \in ks : k <= j

\* C14: for every score vector the mapper answers with the rating of the
\* first rule that matches, in the order of the five rules, and with 6+
\* when none does; reasons is the tag of that rule, and empty for 6+ only.
C14_CascadeFirstMatch ==
    rated # NotRated =>
        /\ rated.rating \in {"6+", "12+", "16+", "18+"}
        /\ IF FirstMatch(agg) = 0
           THEN rated = [rating |-> "6+", reasons |-> <<>>]
           ELSE rated = [rating |-> RuleRating[FirstMatch(agg)],
                         reasons |-> <<RuleTag[FirstMatch(agg)]>>]
        /\ rated.reasons = <<>> <=> rated.rating = "6+"

\* the second rule decides, with a child_risk just above its threshold
C14_Witness ==
    /\ rated.rating = "18+"
    /\ FirstMatch(agg) = 2
    /\ agg.child_risk = 51
    /\ agg.sex_act = 0

Rank(rating) ==
    CASE rating = "6+" -> 0
      [] rating = "12+" -> 1
      [] rating = "16+" -> 2
      [] rating = "18+" -> 3

\* C15: a score vector that is not higher in any dimension does not get a
\* stricter rating: the rating given before a score was raised is at most
\* the rating given after.
C15_CascadeMonotone ==
    lower # NoLower =>
        /\ \A d \in Dims : lower.agg[d] <= agg[d]
        /\ Rank(lower.rating) <= Rank(rated.rating)

\* raising profanity over its threshold while violence holds 16+
C15_Witness ==
    /\ lower # NoLower
    /\ lower.rating = "16+"
    /\ rated.rating = "16+"
    /\ lower.agg.profanity < 50
    /\ agg.profanity >= 50

\* C16: each of the seven normalized scores of a scene is in [0, 1], for
\* every feature vector with non-negative counters and length >= 1.
C16_NormalizedInUnitInterval ==
    /\ features # NoFeatures =>
          /\ features.length >= 1
          /\ \A f \in DOMAIN features : features[f] >= 0
    /\ normalized # NoScores =>
          \A d \in Dims : normalized[d] >= 0 /\ normalized[d] <= 100

\* a short scene whose violence and gore exceed the divisors
C16_Witness ==
    /\ normalized # NoScores
    /\ features.violence * 150 > 100 * features.length
    /\ features.gore > 2
    /\ normalized.violence = 100
    /\ normalized.gore = 100
    /\ normalized.nudity < 100

(***************************************************************************)
(* What-if: properties                                                     *)
(***************************************************************************)
\* C17: the what-if path with the empty modification list - segment,
\* apply nothing, join the scene texts with a blank line, score again -
\* gives the rating and the scores of the original text and reports no
\* change of rating, for every script text.
C17_IdentityWhatIf ==
    (response # NoResponse /\ request.modifications = <<>>) =>
        /\ response.modifications_applied = <<>>
        /\ response.modified_rating = response.original_rating
        /\ response.modified_scores = response.original_scores
        /\ response.rating_changed = FALSE

\* a text of several scenes that the rebuilding changes, rated above 6+
C17_Witness ==
    /\ response # NoResponse
    /\ request.modifications = <<>>
    /\ Len(response.classified) >= 4
    /\ response.modified_script # request.script_text
    /\ response.original_rating = "16+"
    /\ response.modified_rating = "16+"

\* the ids the claim removes: scene_ids and the scenes matching the types,
\* the characters or the locations of the params
RemovalSet(stream, params) ==
    {id \in 0..(Len(stream) + 7) :
        \/ "scene_ids" \in params.keys /\ id \in params.scene_ids
        \/ \E i \in 1..Len(stream) :
              /\ stream[i].scene_id = id
              /\ \/ /\ "scene_types" \in params.keys
                    /\ stream[i].scene_type \in params.scene_types
                 \/ /\ "characters" \in params.keys
                    /\ \E c \in params.characters :
                          c \in stream[i].characters
                 \/ /\ "locations" \in params.keys
                    /\ stream[i].location \in params.locations}

\* C18: scene removal on a list with dense ids returns exactly the scenes
\* whose id is not in the removal set, in their order and renumbered from
\* 0; removed_count is the number of scenes dropped, remaining_count the
\* number returned.
C18_SceneRemoval ==
    removal.result # NotApplied =>
        LET stream == removal.scenes
            out == removal.result.scenes
            ids == RemovalSet(stream, removal.params)
            kept == {i \in 1..Len(stream) : stream[i].scene_id \notin ids}
            Place(j) == CHOOSE i \in kept :
                            Cardinality({x \in kept : x < i}) = j - 1
        IN  /\ Len(out) = Cardinality(kept)
            /\ \A j \in 1..Len(out) :
                  out[j] = [stream[Place(j)] EXCEPT !.scene_id = j - 1]
            /\ removal.result.metadata.removed_count
                  = Len(stream) - Len(out)
            /\ removal.result.metadata.removed_count
                  = Cardinality({i \in 1..Len(stream) :
                                    stream[i].scene_id \in ids})
            /\ removal.result.metadata.remaining_count = Len(out)

\* three scenes, remove {1}: the scenes 0 and 2 remain with ids 0 and 1
C18_Witness ==
    /\ removal.result # NotApplied
    /\ Len(removal.scenes) = 3
    /\ removal.params.keys = {"scene_ids"}
    /\ removal.params.scene_ids = {1}
    /\ Len(removal.result.scenes) = 2
    /\ removal.result.scenes[2].scene_id = 1
    /\ removal.result.scenes[2].heading.idx = 2
    /\ removal.result.metadata.removed_count = 1

\* a modification the engine skips: its strategy rejects the params
Skipped(req, mod) ==
    /\ mod.type \in {"remove_scenes", "delete_scenes"}
    /\ mod.params.keys \cap {"scene_ids", "scene_types", "characters",
                              "locations"} = {}

\* C19: the modifications are applied in the order of the request, each to
\* the scenes its predecessor returned, so that a later modification's
\* scene ids name the renumbered scenes; modifications_applied lists them
\* in that order.
C19_AppliedInListOrder ==
    response # NoResponse =>
        LET trace == response.trace
            done == SelectSeq(request.modifications,
                              LAMBDA mod : ~Skipped(request, mod))
        IN  /\ Len(trace) = Len(done)
            /\ Len(response.modifications_applied) = Len(done)
            /\ \A k \in 1..Len(done) :
                  /\ response.modifications_applied[k].type = done[k].type
                  /\ trace[k].type = done[k].type
                  /\ trace[k].input = IF k = 1 THEN response.classified
                                      ELSE trace[k - 1].output
                  /\ (done[k].type = "remove_scenes"
                      /\ response.modifications_applied[k].error = None) =>
                        LET kept == {i \in 1..Len(trace[k].input) :
                                        trace[k].input[i].scene_id
                                            \notin done[k].params.scene_ids}
                            Place(j) ==
                                CHOOSE i \in kept :
                                    Cardinality({x \in kept : x < i}) = j - 1
                        IN  /\ Len(trace[k].output) = Cardinality(kept)
                            /\ \A j \in 1..Len(trace[k].output) :
                                  /\ trace[k].output[j].text
                                       = trace[k].input[Place(j)].text
                                  /\ trace[k].output[j].scene_id = j - 1
            /\ response.stream = IF trace = <<>> THEN response.classified
                                 ELSE trace[Len(trace)].output
            /\ response.modified_script
                  = reconstruct_script(response.stream)

\* remove scene 0 twice: the first two scenes of the script are gone
C19_Witness ==
    /\ response # NoResponse
    /\ Len(request.modifications) = 2
    /\ \A k \in 1..2 :
          /\ request.modifications[k].type = "remove_scenes"
          /\ request.modifications[k].params.scene_ids = {0}
    /\ Len(response.classified) = 4
    /\ Len(response.stream) = 2
    /\ response.stream[1].heading = response.classified[3].heading
    /\ response.stream[1].scene_id = 0

NotConfigured == "LLM generator not configured"

\* C20: with the LLM adapter unconfigured an LLM-rewrite modification
\* leaves the scenes as they are, does not fail the run, and its entry in
\* modifications_applied carries the error "LLM generator not configured".
C20_UnconfiguredRewriteNoOp ==
    (response # NoResponse /\ request.generator = "unconfigured") =>
        \A k \in 1..Len(response.trace) :
            response.trace[k].type = "llm_rewrite" =>
                /\ response.trace[k].output = response.trace[k].input
                /\ \/ response.modifications_applied[k].error = NotConfigured
                   \/ /\ "error" \in DOMAIN
                             response.modifications_applied[k].metadata
                      /\ response.modifications_applied[k].metadata.error
                           = NotConfigured

(***************************************************************************)
(* ML service client: retries                                              *)
(***************************************************************************)
Transient == {"timeout", "request_error"}

\* C24: the call makes at most max_retries attempts, exactly max_retries
\* when all fail transiently; it sleeps retry_delay * 2^k after the failed
\* attempt k and not after the last one; a successful attempt returns at
\* once, so that a success is always the last attempt made.
C24_BackoffAndAttempts ==
    /\ Len(client.trace) <= client.max_retries
    /\ \A k \in DOMAIN client.sleeps : client.sleeps[k] = 2 ^ (k - 1)
    /\ \A i \in DOMAIN client.trace :
          /\ i < Len(client.trace) => client.trace[i].kind \in Transient
          /\ client.trace[i].kind = "ok" => client.pc = "returned"
    /\ client.pc = "sleeping" => Len(client.sleeps) = Len(client.trace) - 1
    /\ client.pc = "returned" =>
          /\ client.trace[Len(client.trace)].kind = "ok"
          /\ Len(client.sleeps) = Len(client.trace) - 1
    /\ (client.pc = "raised" /\ AllFailedWith(Transient)) =>
          /\ Len(client.trace) = client.max_retries
          /\ Len(client.sleeps) = client.max_retries - 1
    /\ (client.pc = "raised" /\ client.max_retries > 0
          /\ \A i \in DOMAIN client.trace :
                client.trace[i].kind \in Transient) =>
          Len(client.trace) = client.max_retries

\* success on the third attempt after two sleeps
C24_Witness ==
    /\ client.pc = "returned"
    /\ Len(client.trace) = 3
    /\ client.max_retries > 3
    /\ client.sleeps = <<1, 2>>

\* a modification that fails: no strategy handles its type, or its
\* strategy raises
Fails(req, mod) ==
    \/ mod.type \notin init_strategies(req.generator)
    \/ scene_removal_raises(mod)

Headings(txt) == Cardinality({i \in 1..Len(txt) : txt[i] = Marker})

\* C23: a script with at least two scene headings is segmented into at
\* least two scenes, and a scene that starts with an INT. heading gets a
\* heading that contains it.
C23_TwoHeadingsTwoScenes ==
    response # NoResponse =>
        /\ Headings(request.script_text) >= 2 =>
              Len(response.classified) >= 2
        /\ \A i \in 1..Len(response.classified) :
              LET scene == response.classified[i]
              IN  (scene.text # <<>> /\ scene.text[1] = Marker) =>
                      /\ scene.heading.kind = "heading"
                      /\ scene.heading.line # <<>>
                      /\ scene.heading.line[1] = Marker

\* the non-empty chunks of a text, stripped, in file order
Chunks(txt) ==
    LET parts == re_split(txt)
    IN  SelectSeq([j \in 1..Len(parts) |-> strip(parts[j])],
                  LAMBDA part : part # <<>>)

Renamed ==
    /\ strategy_call.strategy = "modify_character"
    /\ strategy_call.result # NotApplied
    /\ strategy_call.params.character_name.given
    /\ strategy_call.params.new_name.given

\* the places of a text that hold the name, case not counted
Occurrences(text, name) ==
    {i \in 1..Len(text) : casefold(text[i]) = casefold(name)}

\* C21: rename(old -> new) replaces every case-insensitive whole-word
\* occurrence of old in every scene: replacements is their total number,
\* none remains in any scene text, and in every scene's character list each
\* entry that names the old character is replaced by new.
C21_RenameEverywhere ==
    Renamed =>
        LET old == strategy_call.params.character_name.value
            new == strategy_call.params.new_name.value
            before == strategy_call.stream
            after == strategy_call.result.scenes
        IN  /\ Len(after) = Len(before)
            /\ strategy_call.result.metadata.replacements =
                   SumSeq([i \in 1..Len(before) |->
                              Cardinality(Occurrences(before[i].text, old))])
            /\ \A i \in 1..Len(after) :
                  /\ Occurrences(after[i].text, old) = {}
                  /\ Len(after[i].text) = Len(before[i].text)
                  /\ \A k \in 1..Len(after[i].text) :
                        after[i].text[k] =
                            IF k \in Occurrences(before[i].text, old)
                            THEN new ELSE before[i].text[k]
                  /\ Len(after[i].characters) = Len(before[i].characters)
                  /\ \A k \in 1..Len(after[i].characters) :
                        after[i].characters[k] =
                            IF casefold(before[i].characters[k]) = casefold(old)
                            THEN new ELSE before[i].characters[k]

\* a content-reduction call, made
Reduced ==
    /\ strategy_call.strategy = "reduce_content"
    /\ strategy_call.result # NotApplied

\* the content types of a call
Selected ==
    IF strategy_call.params.content_types.given
    THEN strategy_call.params.content_types.value
    ELSE <<"violence", "profanity">>

\* C26: custom replacements override the defaults: a word of a rewritten
\* scene that a custom entry matches, and that an entry of the default
\* table of a selected content type matches too, is rewritten with the
\* custom replacement.
C26_CustomOverridesDefault ==
    (Reduced /\ strategy_call.params.custom_replacements.given) =>
        LET custom == strategy_call.params.custom_replacements.value
            before == strategy_call.stream
            after == strategy_call.result.scenes
        IN  \A i \in 1..Len(before) :
                before[i].text # after[i].text =>
                    \A k \in 1..Len(before[i].text) :
                        \A c \in 1..Len(custom) :
                            (/\ pattern_matches(custom[c].pattern,
                                                before[i].text[k])
                             /\ \E t \in 1..Len(Selected) :
                                  \E d \in 1..Len(default_replacements[Selected[t]]) :
                                      pattern_matches(
                                          default_replacements[Selected[t]][d].pattern,
                                          before[i].text[k]))
                            => after[i].text[k] = custom[c].replacement

\* C27: ContentReduction touches only the scenes of its restriction: with
\* scope given, a scene whose id is not in scope comes back unchanged; with
\* target_characters given, a scene that lists none of them comes back
\* unchanged; the number, the order and the scene_ids of the scenes stay.
C27_OnlyRestrictedScenes ==
    Reduced =>
        LET params == strategy_call.params
            before == strategy_call.stream
            after == strategy_call.result.scenes
        IN  /\ Len(after) = Len(before)
            /\ \A i \in 1..Len(before) :
                  /\ after[i].scene_id = before[i].scene_id
                  /\ after[i].characters = before[i].characters
                  /\ (params.scope.given
                      /\ before[i].scene_id \notin params.scope.value)
                        => after[i] = before[i]
                  /\ (params.target_characters.given
                      /\ \A k \in 1..Len(before[i].characters) :
                            before[i].characters[k]
                                \notin params.target_characters.value)
                        => after[i] = before[i]

(***************************************************************************)
(* Rating advisor: properties                                              *)
(***************************************************************************)
\* an achievability call, made
Checked ==
    /\ advisor_call.step = "achievability"
    /\ advisor_call.result # NoAdvice

\* the violations of a call, score minus target threshold where positive:
\* their number, the largest and their sum
Violations ==
    LET over == {d \in Dims : advisor_call.scores[d] >
                              RATING_THRESHOLDS[advisor_call.target][d]}
    IN  [count |-> Cardinality(over),
         max |-> Max({advisor_call.scores[d]
                      - RATING_THRESHOLDS[advisor_call.target][d] : d \in over}
                     \cup {0}),
         total |-> SumSeq([i \in 1..Len(DimOrder) |->
                      IF DimOrder[i] \in over
                      THEN advisor_call.scores[DimOrder[i]]
                           - RATING_THRESHOLDS[advisor_call.target][DimOrder[i]]
                      ELSE 0])]

\* 0.3 for a maximum over 0.5, else 0.5 for one over 0.3, else 0.7 for an
\* average over 0.2, else 0.9
Cascade ==
    IF Violations.max > 50 THEN 30
    ELSE IF Violations.max > 30 THEN 50
    ELSE IF Violations.total > 20 * Violations.count THEN 70
    ELSE 90

Above(target, current) == rating_index(target) > rating_index(current)

\* C22: a target strictly above the current rating is not achievable;
\* every other target is achievable with the confidence of the cascade on
\* the violations.
C22_Achievability ==
    Checked =>
        IF Above(advisor_call.target, advisor_call.current)
        THEN ~advisor_call.result.is_achievable
        ELSE /\ advisor_call.result.is_achievable
             /\ advisor_call.result.confidence = Cascade

\* C22 as the code has it: the target equal to the current rating, and a
\* target below it that no score exceeds, are achievable with confidence 1;
\* the cascade applies to a target below the current rating with at least
\* one violation.
C22_AchievabilityWithCertainty ==
    Checked =>
        IF Above(advisor_call.target, advisor_call.current)
        THEN /\ ~advisor_call.result.is_achievable
             /\ advisor_call.result.confidence = 0
        ELSE /\ advisor_call.result.is_achievable
             /\ advisor_call.result.confidence =
                    IF \/ advisor_call.target = advisor_call.current
                       \/ Violations.count = 0
                    THEN 100 ELSE Cascade

\* 16+ to 6+ with violence 0.5 and gore 0.3: two violations of 0.3, none
\* over 0.3, average over 0.2
C22_Witness ==
    /\ Checked
    /\ advisor_call.current = "16+"
    /\ advisor_call.target = "6+"
    /\ advisor_call.scores.violence = 50
    /\ advisor_call.scores.gore = 30
    /\ advisor_call.scores.sex_act = 0
    /\ advisor_call.scores.profanity = 0
    /\ advisor_call.result.confidence = 70

\* a recommendations call, made
Recommended ==
    /\ advisor_call.step = "recommendations"
    /\ advisor_call.result # NoAdvice

\* the largest excess of a problem scene
LargestIssue(issue) == Max({issue.issues[d] : d \in Dims})

\* the actions of a list for one scene
ActionsFor(actions, scene_id) ==
    SelectSeq(actions, LAMBDA action : action.scene_id = scene_id)

SortedByImpact(actions) ==
    \A i \in 1..(Len(actions) - 1) :
        actions[i].impact_score >= actions[i + 1].impact_score

\* C28: every problem scene gets exactly one action, chosen by its largest
\* excess m: remove_scene (easy, min(1, 1.2 m)) for m >= 0.6, rewrite_scene
\* (hard, 0.9 m) for 0.3 <= m < 0.6, otherwise reduce_content (medium,
\* 0.7 m); the list is sorted by impact, the larger first.
C28_OneActionPerScene ==
    Recommended =>
        LET actions == advisor_call.result.recommended_actions
            problems == advisor_call.result.problematic_scenes
        IN  /\ SortedByImpact(actions)
            /\ \A i \in 1..Len(problems) :
                  LET m == LargestIssue(problems[i])
                      own == ActionsFor(actions, problems[i].scene_id)
                  IN  /\ Len(own) = 1
                      /\ own[1].action_type =
                             IF m >= 60 THEN "remove_scene"
                             ELSE IF m >= 30 THEN "rewrite_scene"
                             ELSE "reduce_content"
                      /\ own[1].difficulty =
                             IF m >= 60 THEN "easy"
                             ELSE IF m >= 30 THEN "hard" ELSE "medium"
                      /\ own[1].impact_score =
                             IF m >= 60 THEN Min(1000, 12 * m)
                             ELSE IF m >= 30 THEN 9 * m ELSE 7 * m

\* the actions chosen by the largest excess, told by their change text
ByThreshold(actions) ==
    SelectSeq(actions, LAMBDA action :
        action.specific_changes \in
            {"Remove entire scene",
             "Rewrite scene to reduce problematic content",
             "Remove or tone down specific elements"})

\* C28 as the code has it: a problem scene of severity critical or high
\* gets exactly one action chosen by its largest excess m, with the bounds
\* strict - remove_scene for m > 0.6, rewrite_scene for 0.3 < m <= 0.6,
\* otherwise reduce_content - and a scene of lower severity gets none; the
\* actions found from the scene's content come on top of these; the list is
\* sorted by impact, the larger first.
C28_OneActionPerSevereScene ==
    Recommended =>
        LET actions == advisor_call.result.recommended_actions
            problems == advisor_call.result.problematic_scenes
        IN  /\ SortedByImpact(actions)
            /\ \A i \in 1..Len(problems) :
                  LET m == LargestIssue(problems[i])
                      own == ByThreshold(ActionsFor(actions,
                                                    problems[i].scene_id))
                  IN  IF problems[i].severity \in {"critical", "high"}
                      THEN /\ Len(own) = 1
                           /\ own[1].action_type =
                                  IF m > 60 THEN "remove_scene"
                                  ELSE IF m > 30 THEN "rewrite_scene"
                                  ELSE "reduce_content"
                           /\ own[1].difficulty =
                                  IF m > 60 THEN "easy"
                                  ELSE IF m > 30 THEN "hard" ELSE "medium"
                           /\ own[1].impact_score =
                                  IF m > 60 THEN Min(1000, 12 * m)
                                  ELSE IF m > 30 THEN 9 * m ELSE 7 * m
                      ELSE own = <<>>

\* two severe scenes against 6+: one with an excess of exactly 0.6, to be
\* rewritten, one with three excesses of 0.3, to be reduced
C28_Witness ==
    /\ Recommended
    /\ advisor_call.target = "6+"
    /\ Len(advisor_call.result.problematic_scenes) = 2
    /\ \E i, j \in 1..Len(advisor_call.result.recommended_actions) :
          /\ i < j
          /\ advisor_call.result.recommended_actions[i].action_type = "rewrite_scene"
          /\ advisor_call.result.recommended_actions[i].impact_score = 540
          /\ advisor_call.result.recommended_actions[j].action_type = "reduce_content"
          /\ advisor_call.result.recommended_actions[j].impact_score = 210

(***************************************************************************)
(* Version store under concurrency: properties                             *)
(***************************************************************************)
\* C29: when create_version calls for one script on sessions of their own
\* interleave, the versions have distinct version_numbers, at most one of
\* them is current, and script.current_version is the number of the
\* current one.
C29_ConcurrentCreateKeepsInvariants ==
    /\ \A v, w \in versions :
          v.version_number = w.version_number => v = w
    /\ Cardinality({v \in versions : v.is_current}) <= 1
    /\ \A v \in versions :
          v.is_current => script.current_version = v.version_number

====
